---- MODULE Spec2Model ----
(***************************************************************************)
(* Model of the infrastructure generation orchestrator of the             *)
(* infra-version-control-service (app/api/endpoints/orchestration.py) and  *)
(* of the collaborators it calls.                                          *)
(*                                                                         *)
(* Grain of atomicity: the service runs on one asyncio event loop, so a    *)
(* coroutine is interleaved with others only at an await.  The model is    *)
(* finer than that: the background task takes one step of the model per    *)
(* generation step, and one per return of an awaited gateway call.  The    *)
(* assignments of one terminal transition (lines 202-205, lines 214-216)   *)
(* contain no await and are one step.                                      *)
(*                                                                         *)
(* progress_percentage is kept in tenths of a percent (12.5 is 125).       *)
(***************************************************************************)
EXTENDS Integers, Sequences, FiniteSets, Bags, TLC

\* ------------------------------------------------------------------ bounds
\* start requests handed to the API in one run (each schedules at most one
\* background task)
MaxRequests == 1
\* template files that may be missing from the template directory
MaxMissing == 1
\* The number of start requests followed when jobs are interleaved.
MaxJobs == 2
\* The number of messages the broker delivers on the consumer's stream.
MaxMessages == 3
\* The number of calls that may be in progress at a time: suspended in an
\* await, or returned with the result on its way to the caller.
MaxInFlight == 2

Projects == {"P1", "P2"}

\* ------------------------------------------------------- Python values
\* Optional[x]: None is the empty sequence, a value x is <<x>>.
None == <<>>
Some(x) == <<x>>

\* A JSON object is a set of <<key, value>> pairs; a JSON value is a pair
\* <<type, text>>.
JInt(t) == <<"int", t>>
JStr(t) == <<"str", t>>
JNull == <<"null", "">>
EmptyDict == {}

\* dict.get(key, default)
Has(d, k) == \E p \in d : p[1] = k
Get(d, k, default) == IF Has(d, k) THEN (CHOOSE p \in d : p[1] = k)[2] ELSE default

\* Python truth of an Optional[dict]: None and {} are both false.
Truthy(o) == o # None /\ o[1] # EmptyDict

\* pydantic's validation of a `str` field and of an element of a List[int]
\* field: a JSON string is a str; a JSON number, or a string of digits, is an
\* int; anything else is rejected with a ValidationError.  Digits are the
\* numerals that occur in the payloads below.
IsStr(v) == v[1] = "str"
Digits == {"3000", "3001", "8080"}
IsInt(v) == v[1] \in {"int", "str"} /\ v[2] \in Digits

\* ------------------------------------------------- what the peers answer
\* Bodies a peer may send with a 200 for /projects/{id}.
ProjectInfoBodies ==
    { EmptyDict,
      {<<"name", JStr("app")>>},
      {<<"description", JStr("demo")>>},
      {<<"name", JNull>>} }

\* Bodies the backend service and the frontend service may send with a 200
\* for /config/{id}.
BackendBodies ==
    { EmptyDict,
      {<<"port", JInt("3000")>>},
      {<<"framework", JStr("express")>>},
      {<<"port", JStr("abc")>>} }
FrontendBodies ==
    { EmptyDict,
      {<<"port", JInt("3001")>>},
      {<<"framework", JStr("react")>>},
      {<<"port", JNull>>} }

\* An answer to an HTTP call: a transport error, or a response with a status
\* code whose body decodes as JSON or does not.
Answers(bodies) ==
    { [kind |-> "error", code |-> 0, json_ok |-> FALSE, body |-> EmptyDict] }
    \cup { [kind |-> "response", code |-> c, json_ok |-> TRUE, body |-> b] :
             c \in {200, 404, 500}, b \in bodies }
    \cup { [kind |-> "response", code |-> 200, json_ok |-> FALSE, body |-> EmptyDict] }

\* Bodies the domain/schema service may send with a 200 for /schema/{id}.
DomainBodies ==
    { EmptyDict,
      {<<"entities", JStr("user")>>} }

\* Answers to the POST of notify_infra_ready: those above, and the success
\* statuses a POST is commonly answered with besides 200.
NotifyAnswers ==
    Answers({EmptyDict})
    \cup { [kind |-> "response", code |-> c, json_ok |-> TRUE, body |-> EmptyDict] :
             c \in {201, 204} }

\* The try block of a gateway read (integration_service.py lines 16-21,
\* 29-34, 42-47, 55-60): client.get raises on a transport error,
\* response.json() raises on a body that is not JSON.
GatewayTry(ans) ==
    IF ans.kind = "error" THEN [raised |-> TRUE, value |-> None]
    ELSE IF ans.code # 200 THEN [raised |-> FALSE, value |-> None]
    ELSE IF ~ans.json_ok THEN [raised |-> TRUE, value |-> None]
    ELSE [raised |-> FALSE, value |-> Some(ans.body)]

\* A variant of a gateway read with a fault: there is no except clause.
GatewayCallPropagates(ans) == GatewayTry(ans)

\* A gateway read as its caller sees it: `except Exception` logs and returns
\* None.
GatewayCall(ans) ==
    LET t == GatewayTry(ans)
    IN  IF t.raised THEN [raised |-> FALSE, value |-> None] ELSE t

\* IntegrationService.get_project_info / get_domain_schema /
\* get_backend_config / get_frontend_config: the decoded body on a 200, None
\* on every other status code and on every exception (transport, decoding).
GatewayRead(ans) == GatewayCall(ans).value

\* The try block of notify_infra_ready (lines 68-77).
NotifyTry(ans) ==
    IF ans.kind = "error" THEN [raised |-> TRUE, value |-> FALSE]
    ELSE [raised |-> FALSE, value |-> (ans.code = 200)]

\* A variant of notify_infra_ready with a fault: every 2xx answer counts.
NotifyCallAnySuccess(ans) ==
    LET t == NotifyTry(ans)
    IN  IF t.raised THEN [raised |-> FALSE, value |-> FALSE]
        ELSE [raised |-> FALSE, value |-> (ans.code \in 200..299)]

\* notify_infra_ready as its caller sees it: `except Exception` logs and
\* returns False.
NotifyCall(ans) ==
    LET t == NotifyTry(ans)
    IN  IF t.raised THEN [raised |-> FALSE, value |-> FALSE] ELSE t

\* IntegrationService.notify_infra_ready: status_code == 200, False on any
\* exception.
NotifyResult(ans) == NotifyCall(ans).value

\* --------------------------------------------------------------- state
VARIABLES
    requests,       \* the start requests handed to the API, in arrival order,
                    \* each with its handler's position and, once answered,
                    \* its response
    jobs,           \* the background tasks, in the order they were scheduled:
                    \* the GenerationStatus record, the InfrastructureConfig,
                    \* the locals and the position of generate_infrastructure_async
    now,            \* the clock datetime.now() reads
    templates,      \* the template files the jinja2 loader finds on disk
    polled,         \* the latest get-status request and its response
    api,            \* the call of one of the other endpoints or of a gateway
                    \* function whose result is on its way to the caller,
                    \* with what the call did: its result or response, the
                    \* SET it sent to Redis, the events it handed to the
                    \* Kafka producer
    pending,        \* the calls of those endpoints and functions that are
                    \* suspended in an await: a bag, since two calls with
                    \* the same arguments may be suspended together
    redis_client,   \* RedisService.redis_client is set (connect() was run)
    producer,       \* KafkaService.producer is set (start() was run)
    consumer,       \* KafkaService.consumer is set
    lifespan,       \* the application's lifespan coroutine: its position,
                    \* the exception that is propagating, and the calls it
                    \* has made to the services, in order
    stream,         \* the consumer's message stream: the messages the
                    \* broker delivers, the next one, and whether the stream
                    \* is open, has ended or has raised
    dispatched      \* the messages _process_message handed to a handler, in
                    \* order, and whether processing raised

vars == <<requests, jobs, now, templates, polled, api, pending, redis_client,
          producer, consumer, lifespan, stream, dispatched>>
svcVars == <<consumer, lifespan, stream, dispatched>>
apiVars == <<api, pending, redis_client, producer, svcVars>>
orchVars == <<requests, jobs, now, polled>>

\* Templates rendered by the generators of the generation sequence.
TemplateFiles ==
    {"docker/Dockerfile.j2", "kubernetes/deployment.yaml.j2", "terraform/main.tf.j2"}

\* Templates rendered by the generators the other endpoints call.
ApiTemplateFiles ==
    {"docker/Dockerfile.j2", "cicd/Jenkinsfile.j2",
     "terraform/main.tf.j2", "terraform/variables.tf.j2", "terraform/outputs.tf.j2",
     "kubernetes/namespace.yaml.j2", "kubernetes/deployment.yaml.j2",
     "kubernetes/service.yaml.j2", "kubernetes/ingress.yaml.j2",
     "kubernetes/hpa.yaml.j2", "monitoring/fluentd.conf.j2"}

\* settings.SERVICE_PORT is not used by the sequence; the two default ports are.
DefaultBackendPort == 3000
DefaultFrontendPort == 3001
TotalSteps == 8

\* Progress written when a step starts, in tenths of a percent.
Pct1 == 125
Pct2 == 250
Pct3 == 375
Pct4 == 500
Pct5 == 625
Pct6 == 750
Pct7 == 875
Pct8 == 1000

\* orchestration.py imports DockerImageConfig, DockerComposeService,
\* DockerComposeConfig, K8sDeploymentConfig, PrometheusConfig,
\* TerraformProvider, GitRepository and GitCommit from the schemas; step 4
\* uses the name GitHubActionsConfig.  The name is bound in the module iff it
\* is among the imported names.
ImportedNames ==
    {"BaseResponse", "DockerImageConfig", "DockerComposeService",
     "DockerComposeConfig", "K8sDeploymentConfig", "PrometheusConfig",
     "TerraformProvider", "GitRepository", "GitCommit", "InfrastructureConfig",
     "GenerationStatus"}
NameBound(n) == n \in ImportedNames

\* str(e) of the HTTPException(404, "Project not found") raised at line 34:
\* "<status_code>: <detail>" where the class defines __str__, the empty
\* string where it does not (Exception.__init__ got no arguments).
HTTPExceptionStr(code, detail, has_str) ==
    IF has_str THEN ToString(code) \o ": " \o detail ELSE ""

\* GenerationStatus(...) of lines 37-44; messages, errors and completed_at take
\* the defaults of the model class (project.py lines 43-46).
NewStatus(p, t) ==
    [ project_id |-> p,
      status |-> "in_progress",
      current_step |-> "Initializing",
      total_steps |-> TotalSteps,
      progress_percentage |-> 0,
      messages |-> <<>>,
      errors |-> <<>>,
      started_at |-> t,
      completed_at |-> None ]

\* InfrastructureConfig(project_id=project_id) of line 75: every category
\* starts as an empty dict, terraform as None (project.py lines 13-30).
NewInfra ==
    [ docker |-> <<>>,
      kubernetes |-> <<>>,
      cicd |-> <<>>,
      terraform |-> None,
      monitoring |-> <<>> ]

\* The task background_tasks.add_task schedules (lines 47-52): the arguments
\* project_id, project_info, status, and the task's locals.
NewJob(r, p, info, t) ==
    [ req |-> r,
      project_id |-> p,
      project_info |-> info,
      status |-> NewStatus(p, t),
      infra |-> NewInfra,
      pc |-> "scheduled",
      repo_name |-> "",
      backend_config |-> None,
      frontend_config |-> None,
      calls |-> <<>>,
      exc |-> "",
      raised_at |-> 0,
      completed_at_writes |-> 0,
      outcome |-> "running" ]

NoResponse ==
    [status_code |-> 0, success |-> FALSE, data_status |-> "", data_step |-> "",
     data_progress |-> 0, detail |-> ""]

\* No get-status request was answered yet.  n is the parity of the number of
\* get-status requests answered so far.
NoPoll == [project_id |-> "", n |-> 0, response |-> NoResponse]

\* The lifespan coroutine is not followed: the specifications of the
\* endpoints take the services as they find them.
LifespanNotEntered ==
    /\ consumer = FALSE
    /\ lifespan = [pc |-> "not_followed", exc |-> "", calls |-> <<>>]
    /\ stream = [messages |-> <<>>, next |-> 1, state |-> "ended"]
    /\ dispatched = <<>>

\* No call is being answered.
NoCall ==
    [endpoint |-> "", input |-> <<>>, work |-> <<>>, response |-> <<>>,
     cache_set |-> None, published |-> <<>>]

TypeOK ==
    /\ now \in Nat
    /\ templates \subseteq TemplateFiles \cup ApiTemplateFiles
    /\ redis_client \in BOOLEAN
    /\ producer \in BOOLEAN
    /\ Len(requests) <= MaxRequests
    /\ Len(jobs) <= Len(requests)
    /\ \A i \in DOMAIN jobs :
         /\ jobs[i].status.status \in {"pending", "in_progress", "completed", "failed"}
         /\ jobs[i].status.progress_percentage \in 0..1000
         /\ jobs[i].req \in DOMAIN requests

Init ==
    /\ requests = <<>>
    /\ jobs = <<>>
    /\ now = 0
    /\ templates \in {TemplateFiles \ m : m \in {x \in SUBSET TemplateFiles :
                                                  Cardinality(x) <= MaxMissing}}
    /\ polled = NoPoll
    /\ api = NoCall
    /\ pending = EmptyBag
    /\ redis_client = FALSE
    /\ producer = FALSE
    /\ LifespanNotEntered

\* ------------------------------------------- generate_infrastructure_async
\* A raise inside the try block: the rest of the block is skipped.  exc holds
\* str(e) until the except clause has run.
Raise(j, step, e) == [j EXCEPT !.exc = e, !.raised_at = step]

\* A call the task makes to a collaborator (git, generator, gateway), with
\* whether it succeeded.
Call(j, op, ok) == [j EXCEPT !.calls = Append(@, [op |-> op, ok |-> ok])]

\* status.current_step = ...; status.progress_percentage = ...
StartStep(j, label, pct) ==
    [j EXCEPT !.status.current_step = label, !.status.progress_percentage = pct]

\* TemplateService.render_template: the jinja2 error of a template that is
\* missing is logged and raised again.  str() of jinja2's TemplateNotFound is
\* the name of the template.
TemplateRaises(path, tmpl) == path \notin tmpl
TemplateError(path) == path

\* Step 1, lines 75-92.  GitRepository validates repo_name as a str; the three
\* GitService calls catch every exception and return a bool the task ignores.
Step1(j, g) ==
    LET s == StartStep([j EXCEPT !.infra = NewInfra],
                       "Initializing Git repository", Pct1)
        name == Get(j.project_info, "name", JStr(j.project_id))
    IN  IF ~IsStr(name)
        THEN Raise(s, 1, "ValidationError: GitRepository.repo_name")
        ELSE LET a == [s EXCEPT !.repo_name = name[2]]
                 b == Call(a, "init_repository", g[1])
                 c == Call(b, "create_gitignore", g[2])
                 d == Call(c, "create_readme", g[3])
             IN  [d EXCEPT !.pc = "step2"]

\* Step 2 up to its first await, lines 95-100.
Step2Start(j) ==
    [Call(StartStep(j, "Generating Docker configurations", Pct2),
          "get_backend_config", TRUE) EXCEPT !.pc = "await_backend"]

\* A variant with a fault: a backend config that came back absent is asked
\* for again.
BackendReturnedRetries(j, ans) ==
    IF GatewayRead(ans) = None
    THEN Call(j, "get_backend_config", TRUE)
    ELSE [Call([j EXCEPT !.backend_config = GatewayRead(ans)],
               "get_frontend_config", TRUE) EXCEPT !.pc = "await_frontend"]

\* get_backend_config has returned; get_frontend_config is awaited, line 101.
BackendReturned(j, ans) ==
    [Call([j EXCEPT !.backend_config = GatewayRead(ans)],
          "get_frontend_config", TRUE) EXCEPT !.pc = "await_frontend"]

\* A variant of the Dockerfile branch with a fault: `if cfg:` is missing and
\* an absent config is read as an empty one.
GenerateDockerfileUnguarded(j, svc, cfg, default_port, tmpl) ==
    IF j.exc # "" THEN j
    ELSE LET c == IF Truthy(cfg) THEN cfg[1] ELSE EmptyDict
             port == Get(c, "port", JInt(ToString(default_port)))
         IN  IF ~IsInt(port)
             THEN Raise(j, 2, "ValidationError: DockerImageConfig")
             ELSE IF TemplateRaises("docker/Dockerfile.j2", tmpl)
             THEN Raise(Call(j, "generate_dockerfile:" \o svc, FALSE), 2,
                        TemplateError("docker/Dockerfile.j2"))
             ELSE [Call(j, "generate_dockerfile:" \o svc, TRUE) EXCEPT
                     !.infra.docker = (svc :> [template |-> "docker/Dockerfile.j2",
                                               port |-> port[2]]) @@ @]

\* `if cfg:` DockerImageConfig(...), docker_service.generate_dockerfile(...),
\* infra_config.docker[svc] = dockerfile (lines 104-111 and 113-120).
GenerateDockerfile(j, svc, cfg, default_port, tmpl) ==
    IF j.exc # "" \/ ~Truthy(cfg) THEN j
    ELSE LET port == Get(cfg[1], "port", JInt(ToString(default_port)))
             env == Get(cfg[1], "env_vars", <<"dict", "{}">>)
         IN  IF ~IsInt(port) \/ env[1] # "dict"
             THEN Raise(j, 2, "ValidationError: DockerImageConfig")
             ELSE IF TemplateRaises("docker/Dockerfile.j2", tmpl)
             THEN Raise(Call(j, "generate_dockerfile:" \o svc, FALSE), 2,
                        TemplateError("docker/Dockerfile.j2"))
             ELSE [Call(j, "generate_dockerfile:" \o svc, TRUE) EXCEPT
                     !.infra.docker = (svc :> [template |-> "docker/Dockerfile.j2",
                                               port |-> port[2]]) @@ @]

\* get_frontend_config has returned; the rest of step 2, lines 101-120.
FrontendReturned(j, ans, tmpl) ==
    LET a == [j EXCEPT !.frontend_config = GatewayRead(ans)]
        b == GenerateDockerfile(a, "backend", a.backend_config, DefaultBackendPort, tmpl)
        c == GenerateDockerfile(b, "frontend", a.frontend_config, DefaultFrontendPort, tmpl)
    IN  IF c.exc # "" THEN c ELSE [c EXCEPT !.pc = "step3"]

\* `if cfg:` K8sDeploymentConfig(...), kubernetes_service.generate_deployment,
\* k8s_manifests.append(...) (lines 130-137 and 139-146).  The local list is
\* the second component of the pair.
GenerateDeployment(jm, svc, cfg, default_port, tmpl) ==
    LET j == jm[1] m == jm[2] IN
    IF j.exc # "" \/ ~Truthy(cfg) THEN jm
    ELSE LET port == Get(cfg[1], "port", JInt(ToString(default_port)))
         IN  IF ~IsInt(port)
             THEN <<Raise(j, 3, "ValidationError: K8sDeploymentConfig"), m>>
             ELSE IF TemplateRaises("kubernetes/deployment.yaml.j2", tmpl)
             THEN <<Raise(Call(j, "generate_deployment:" \o svc, FALSE), 3,
                          TemplateError("kubernetes/deployment.yaml.j2")), m>>
             ELSE <<Call(j, "generate_deployment:" \o svc, TRUE),
                    Append(m, [name |-> svc \o "-deployment.yaml",
                               content |-> [template |-> "kubernetes/deployment.yaml.j2",
                                            port |-> port[2]]])>>

\* A variant of step 3 with a fault: the progress is not written.
Step3KeepsProgress(j, tmpl) ==
    LET s == [j EXCEPT !.status.current_step = "Generating Kubernetes manifests"]
        b == GenerateDeployment(<<s, <<>>>>, "backend", s.backend_config,
                                DefaultBackendPort, tmpl)
        c == GenerateDeployment(b, "frontend", s.frontend_config,
                                DefaultFrontendPort, tmpl)
    IN  IF c[1].exc # "" THEN c[1]
        ELSE [c[1] EXCEPT !.infra.kubernetes = ("manifests" :> c[2]) @@ @,
                          !.pc = "step4"]

\* Step 3, lines 123-148.
Step3(j, tmpl) ==
    LET s == StartStep(j, "Generating Kubernetes manifests", Pct3)
        b == GenerateDeployment(<<s, <<>>>>, "backend", s.backend_config,
                                DefaultBackendPort, tmpl)
        c == GenerateDeployment(b, "frontend", s.frontend_config,
                                DefaultFrontendPort, tmpl)
    IN  IF c[1].exc # "" THEN c[1]
        ELSE [c[1] EXCEPT !.infra.kubernetes = ("manifests" :> c[2]) @@ @,
                          !.pc = "step4"]

\* Step 4, lines 151-164.  The callee cicd_service.generate_github_actions is
\* looked up, then its argument GitHubActionsConfig(...) is evaluated: the
\* name is looked up before any of its own arguments.
Step4(j) ==
    LET s == StartStep(j, "Generating CI/CD pipelines", Pct4)
    IN  IF ~NameBound("GitHubActionsConfig")
        THEN Raise(s, 4, "name 'GitHubActionsConfig' is not defined")
        ELSE [Call(Call(s, "generate_build_workflow", TRUE),
                   "generate_github_actions", TRUE) EXCEPT
                !.infra.cicd = ("github_actions" :> "workflow") @@ @,
                !.pc = "step5"]

\* Step 5, lines 167-175.
Step5(j, tmpl) ==
    LET s == Call(StartStep(j, "Generating Terraform configuration", Pct5),
                  "generate_aws_resources", TRUE)
    IN  IF TemplateRaises("terraform/main.tf.j2", tmpl)
        THEN Raise(Call(s, "generate_main_tf", FALSE), 5,
                   TemplateError("terraform/main.tf.j2"))
        ELSE [Call(s, "generate_main_tf", TRUE) EXCEPT
                !.infra.terraform = Some("main.tf" :> "terraform/main.tf.j2"),
                !.pc = "step6"]

\* Step 6, lines 178-189.
Step6(j) ==
    LET s == StartStep(j, "Generating monitoring configuration", Pct6)
        a == Call(s, "generate_default_scrape_configs", TRUE)
        b == Call(a, "generate_prometheus_config", TRUE)
    IN  [b EXCEPT !.infra.monitoring = ("prometheus" :> "prometheus.yml") @@ @,
                  !.pc = "step7"]

\* Step 7, lines 192-199.  GitService.commit returns a bool the task ignores.
Step7(j, g) ==
    [Call(StartStep(j, "Committing configurations", Pct7), "commit", g[1])
       EXCEPT !.pc = "step8"]

\* Step 8 up to its await, lines 202-208.
Step8(j, t) ==
    LET s == StartStep(j, "Finalizing", Pct8)
        a == [s EXCEPT !.status.status = "completed",
                       !.status.completed_at = Some(t),
                       !.completed_at_writes = @ + 1]
    IN  [Call(a, "notify_infra_ready", TRUE) EXCEPT !.pc = "await_notify"]

\* notify_infra_ready has returned (its bool is ignored), lines 208-210.
NotifyReturned(j, ans) ==
    [j EXCEPT !.calls[Len(j.calls)].ok = NotifyResult(ans),
              !.pc = "done", !.outcome = "returned"]

\* Variants of the except clause with a fault: it reports the job as fully
\* processed; it resets the progress; it does not stamp completed_at; it
\* records the error without failing the job; it leaves the task where it was.
ExceptClauseFullProgress(j, t) ==
    [j EXCEPT !.status.status = "failed",
              !.status.progress_percentage = Pct8,
              !.status.errors = Append(@, j.exc),
              !.status.completed_at = Some(t),
              !.completed_at_writes = @ + 1,
              !.exc = "", !.pc = "done", !.outcome = "returned"]
ExceptClauseResetsProgress(j, t) ==
    [j EXCEPT !.status.status = "failed",
              !.status.progress_percentage = 0,
              !.status.errors = Append(@, j.exc),
              !.status.completed_at = Some(t),
              !.completed_at_writes = @ + 1,
              !.exc = "", !.pc = "done", !.outcome = "returned"]
ExceptClauseNoStamp(j, t) ==
    [j EXCEPT !.status.status = "failed",
              !.status.errors = Append(@, j.exc),
              !.exc = "", !.pc = "done", !.outcome = "returned"]
ExceptClauseKeepsStatus(j, t) ==
    [j EXCEPT !.status.errors = Append(@, j.exc),
              !.status.completed_at = Some(t),
              !.completed_at_writes = @ + 1,
              !.exc = "", !.pc = "done", !.outcome = "returned"]
ExceptClauseContinues(j, t) ==
    [j EXCEPT !.status.status = "failed",
              !.status.errors = Append(@, j.exc),
              !.status.completed_at = Some(t),
              !.completed_at_writes = @ + 1,
              !.exc = ""]

\* A variant of the except clause with a fault: it reports the end of the
\* job to the gateway as the success path does.
ExceptClauseNotifies(j, t) ==
    [Call(j, "notify_infra_ready", TRUE) EXCEPT
              !.status.status = "failed",
              !.status.errors = Append(@, j.exc),
              !.status.completed_at = Some(t),
              !.completed_at_writes = @ + 1,
              !.exc = "", !.pc = "done", !.outcome = "returned"]

\* A variant of the except clause with a fault: it awaits the gateway between
\* writing the status and stamping completed_at.
ExceptClauseSuspends(j, t) ==
    [Call(j, "notify_infra_ready", TRUE) EXCEPT
              !.status.status = "failed",
              !.status.errors = Append(@, j.exc),
              !.exc = "", !.pc = "await_notify"]

\* The except clause, lines 212-216.
ExceptClause(j, t) ==
    [j EXCEPT !.status.status = "failed",
              !.status.errors = Append(@, j.exc),
              !.status.completed_at = Some(t),
              !.completed_at_writes = @ + 1,
              !.exc = "",
              !.pc = "done",
              !.outcome = "returned"]

\* The try block from the task's position to its next one.
TryBlock(j, ans, g, tmpl, t) ==
    CASE j.pc = "scheduled"      -> Step1(j, g)
      [] j.pc = "step2"          -> Step2Start(j)
      [] j.pc = "await_backend"  -> BackendReturned(j, ans)
      [] j.pc = "await_frontend" -> FrontendReturned(j, ans, tmpl)
      [] j.pc = "step3"          -> Step3(j, tmpl)
      [] j.pc = "step4"          -> Step4(j)
      [] j.pc = "step5"          -> Step5(j, tmpl)
      [] j.pc = "step6"          -> Step6(j)
      [] j.pc = "step7"          -> Step7(j, g)
      [] j.pc = "step8"          -> Step8(j, t)
      [] j.pc = "await_notify"   -> NotifyReturned(j, ans)

\* A variant of the task with a fault: after the except clause it starts the
\* sequence again.
ResumeRestarts(j, ans, g, tmpl, t) ==
    LET b == TryBlock(j, ans, g, tmpl, t)
    IN  IF b.exc # "" THEN [ExceptClause(b, t) EXCEPT !.pc = "scheduled"] ELSE b

\* generate_infrastructure_async from its position to its next one: the try
\* block, and the except clause when the block raised.
Resume(j, ans, g, tmpl, t) ==
    LET b == TryBlock(j, ans, g, tmpl, t)
    IN  IF b.exc # "" THEN ExceptClause(b, t) ELSE b

\* ------------------------------------------------------------ the API
\* BaseResponse(success=True, message="Infrastructure generation started",
\* data={"project_id": ..., "status": "in_progress", ...}), lines 54-62.
Acknowledgment ==
    [status_code |-> 200, success |-> TRUE, data_status |-> "in_progress",
     data_step |-> "", data_progress |-> 0, detail |-> ""]

\* `except Exception as e: raise HTTPException(status_code=500, detail=str(e))`,
\* lines 64-66: it also catches the HTTPException of line 34.
StartFailure(e_str) ==
    [status_code |-> 500, success |-> FALSE, data_status |-> "", data_step |-> "",
     data_progress |-> 0, detail |-> e_str]

\* Variants of the start handler with a fault: the `if not project_info`
\* check is missing; the first step is run before the response is returned.
StartHandlerNoCheck(r, p, info, t, has_str) ==
    [response |-> Acknowledgment,
     scheduled |-> <<NewJob(r, p, IF info = None THEN EmptyDict ELSE info[1], t)>>]
StartHandlerInline(r, p, info, t, has_str) ==
    IF ~Truthy(info)
    THEN [response |-> StartFailure(HTTPExceptionStr(404, "Project not found", has_str)),
          scheduled |-> <<>>]
    ELSE [response |-> Acknowledgment,
          scheduled |-> <<Resume(NewJob(r, p, info[1], t), None,
                                 <<TRUE, TRUE, TRUE>>, {}, t + 1)>>]

\* A variant of the start handler with a fault: the task is handed to
\* background_tasks before project_info is looked at.
StartHandlerChecksLate(r, p, info, t, has_str) ==
    IF ~Truthy(info)
    THEN [response |-> StartFailure(HTTPExceptionStr(404, "Project not found", has_str)),
          scheduled |-> <<NewJob(r, p, EmptyDict, t)>>]
    ELSE [response |-> Acknowledgment,
          scheduled |-> <<NewJob(r, p, info[1], t)>>]

\* generate_complete_infrastructure after get_project_info has returned,
\* lines 33-66: the response, and the tasks handed to background_tasks.
StartHandler(r, p, info, t, has_str) ==
    IF ~Truthy(info)
    THEN [response |-> StartFailure(HTTPExceptionStr(404, "Project not found", has_str)),
          scheduled |-> <<>>]
    ELSE [response |-> Acknowledgment,
          scheduled |-> <<NewJob(r, p, info[1], t)>>]

\* get_generation_status, lines 218-230.
StatusHandler(js, p) ==
    [status_code |-> 200, success |-> TRUE, data_status |-> "completed",
     data_step |-> "", data_progress |-> Pct8, detail |-> ""]

\* ------------------------------------------------------------- actions
\* A start request arrives: the handler calls get_project_info and is
\* suspended on it (line 32).
StartRequest(p) ==
    /\ Len(requests) < MaxRequests
    /\ requests' = Append(requests,
          [project_id |-> p, pc |-> "await_info", project_info |-> None,
           response |-> NoResponse])
    /\ UNCHANGED <<jobs, now, templates, polled>>
    /\ UNCHANGED apiVars

\* get_project_info returns and the handler runs to its end (lines 33-66).
ProjectInfoReturned(r) ==
    /\ r \in DOMAIN requests
    /\ requests[r].pc = "await_info"
    /\ \E ans \in Answers(ProjectInfoBodies), has_str \in BOOLEAN :
         LET out == StartHandler(r, requests[r].project_id, GatewayRead(ans),
                                 now + 1, has_str)
         IN  /\ requests' = [requests EXCEPT ![r].pc = "answered",
                                             ![r].project_info = GatewayRead(ans),
                                             ![r].response = out.response]
             /\ jobs' = jobs \o out.scheduled
             /\ now' = IF out.scheduled = <<>> THEN now ELSE now + 1
    /\ UNCHANGED <<templates, polled>>
    /\ UNCHANGED apiVars

\* The inputs a position of the task reads: the answer of the peer it awaits,
\* the results of the git operations it calls.
NoAnswer == [kind |-> "error", code |-> 0, json_ok |-> FALSE, body |-> EmptyDict]
AnswersAt(pc) ==
    CASE pc = "await_backend" -> Answers(BackendBodies)
      [] pc = "await_frontend" -> Answers(FrontendBodies)
      [] pc = "await_notify" -> NotifyAnswers
      [] OTHER -> {NoAnswer}
GitResultsAt(pc) ==
    CASE pc = "scheduled" -> [1..3 -> BOOLEAN]
      [] pc = "step7" -> [1..1 -> BOOLEAN]
      [] OTHER -> {<<TRUE>>}

\* The event loop resumes a background task, which runs to its next position.
\* Background tasks run after the response was sent.
RunTask(i) ==
    /\ i \in DOMAIN jobs
    /\ jobs[i].pc # "done"
    /\ requests[jobs[i].req].pc = "answered"
    /\ \E ans \in AnswersAt(jobs[i].pc), g \in GitResultsAt(jobs[i].pc) :
         LET j2 == Resume(jobs[i], ans, g, templates, now + 1)
         IN  /\ jobs' = [jobs EXCEPT ![i] = j2]
             /\ now' = IF j2.completed_at_writes # jobs[i].completed_at_writes
                       THEN now + 1 ELSE now
    /\ UNCHANGED <<requests, templates, polled>>
    /\ UNCHANGED apiVars

\* A get-status request arrives and is answered (the handler has no await).
GetStatus(p) ==
    /\ polled' = [project_id |-> p, n |-> 1 - polled.n,
                  response |-> StatusHandler(jobs, p)]
    /\ UNCHANGED <<requests, jobs, now, templates>>
    /\ UNCHANGED apiVars

Next ==
    \/ \E p \in Projects : StartRequest(p)
    \/ \E r \in 1..MaxRequests : ProjectInfoReturned(r)
    \/ \E i \in 1..MaxRequests : RunTask(i)
    \/ \E p \in Projects : GetStatus(p)

Spec == Init /\ [][Next]_vars

\* The event loop is fair to every task that can run: a background task that
\* was scheduled is started once the response is sent, and a task suspended
\* on a collaborator call is resumed when the call returns, which each call
\* is assumed to do.
FairSpec == Spec /\ \A i \in 1..MaxRequests : WF_vars(RunTask(i))

\* ------------------------------------------- the gateway, called alone
GatewayReads ==
    {"get_project_info", "get_domain_schema", "get_backend_config",
     "get_frontend_config"}

\* What the peer of a gateway read may answer.
GatewayAnswers(op) ==
    CASE op = "get_project_info" -> Answers(ProjectInfoBodies)
      [] op = "get_domain_schema" -> Answers(DomainBodies)
      [] op = "get_backend_config" -> Answers(BackendBodies)
      [] op = "get_frontend_config" -> Answers(FrontendBodies)

\* What a handler hands back to the action: the values it computed on the
\* way, its response, the SET it sent and the events it published.
Handled(work, response, sent, published) ==
    [work |-> work, response |-> response, cache_set |-> sent,
     published |-> published]

\* The api variable after a handler has run.
Served(endpoint, req, h) ==
    [endpoint |-> endpoint, input |-> req, work |-> h.work,
     response |-> h.response, cache_set |-> h.cache_set,
     published |-> h.published]

\* A coroutine that reaches an await on a peer (the HTTP client, the Redis
\* client, the Kafka producer) is suspended there and the event loop runs
\* whatever else is ready: other calls start, and suspended calls resume in
\* the order their peers answer.  A suspended call is kept with its
\* arguments, the results of the calls it made before the await where its
\* response depends on them, and the command it is waiting on.

\* The calls in progress: those suspended and the one whose result is on
\* its way.  The event loop starts every call that arrives; calls are
\* followed while fewer than MaxInFlight are in progress.
InProgress == BagCardinality(pending) + (IF api = NoCall THEN 0 ELSE 1)

\* The call is suspended in its await.
Suspend(endpoint, req, results, command) ==
    /\ InProgress < MaxInFlight
    /\ pending' = pending (+) SetToBag({[endpoint |-> endpoint, input |-> req,
                                         results |-> results,
                                         command |-> command]})
    /\ api' = api

\* The call runs to its end without being suspended.
Complete(endpoint, req, h) ==
    /\ InProgress < MaxInFlight
    /\ pending' = pending
    /\ api' = Served(endpoint, req, h)

\* A handler is run as far as it goes with h what it does when its peer
\* accepts the command: a handler that sends a command is suspended in the
\* await of redis_service.set or kafka_service.publish_event; one that
\* raised before, or whose service has no client or producer (set returns
\* False and publish_event returns before any await), runs to its end.
Called(endpoint, req, h) ==
    /\ InProgress < MaxInFlight
    /\ IF h.cache_set # None
       THEN Suspend(endpoint, req, <<>>, <<"SET", h.cache_set[1].key>>)
       ELSE IF h.published # <<>>
       THEN Suspend(endpoint, req, h.work, <<"send", h.published[1].topic>>)
       ELSE Complete(endpoint, req, h)

\* The peer of the suspended call p has answered and the call has run to
\* its end, with h what it did.
Returned(p, h) ==
    /\ pending' = pending (-) SetToBag({p})
    /\ api' = Served(p.endpoint, p.input, h)

\* One of the four reads of IntegrationService is called: it is suspended in
\* `await self.client.get(...)`.
GatewayRequest(op) ==
    /\ api = NoCall
    /\ \E pid \in Projects : Suspend(op, pid, <<>>, <<"GET", op, pid>>)
    /\ UNCHANGED <<orchVars, templates, redis_client, producer, svcVars>>

\* The peer answers the GET of a suspended read (or the client raises) and
\* the read returns.
GatewayAnswered(op) ==
    /\ api = NoCall
    /\ \E p \in BagToSet(pending), ans \in GatewayAnswers(op) :
         /\ p.endpoint = op
         /\ pending' = pending (-) SetToBag({p})
         /\ api' = [endpoint |-> op, input |-> ans, work |-> <<>>,
                    response |-> GatewayCall(ans),
                    cache_set |-> None, published |-> <<>>]
    /\ UNCHANGED <<orchVars, templates, redis_client, producer, svcVars>>

\* notify_infra_ready is called: it is suspended in
\* `await self.client.post(...)`.
NotifyRequest ==
    /\ api = NoCall
    /\ \E pid \in Projects :
         Suspend("notify_infra_ready", pid, <<>>, <<"POST", "notifications">>)
    /\ UNCHANGED <<orchVars, templates, redis_client, producer, svcVars>>

\* The peer answers the POST of a suspended notify_infra_ready (or the client
\* raises) and the function returns.
NotifyAnswered ==
    /\ api = NoCall
    /\ \E p \in BagToSet(pending), ans \in NotifyAnswers :
         /\ p.endpoint = "notify_infra_ready"
         /\ pending' = pending (-) SetToBag({p})
         /\ api' = [endpoint |-> "notify_infra_ready", input |-> ans,
                    work |-> <<>>, response |-> NotifyCall(ans),
                    cache_set |-> None, published |-> <<>>]
    /\ UNCHANGED <<orchVars, templates, redis_client, producer, svcVars>>

\* ------------------------------------------------- the other endpoints
\* BaseResponse(success=True, message=..., data=...) with status 200, and the
\* HTTPException(status_code=500, detail=str(e)) every handler turns an
\* exception into.
Ok(message, data) ==
    [status_code |-> 200, success |-> TRUE, message |-> message, data |-> data,
     detail |-> ""]
ServerError(e) ==
    [status_code |-> 500, success |-> FALSE, message |-> "", data |-> <<>>,
     detail |-> e]

\* RedisService.set (redis_service.py lines 45-58): False without a client,
\* True after the SET, False when the SET raised.
RedisSet(client, key, value, ok) ==
    IF ~client THEN [result |-> FALSE, sent |-> None]
    ELSE IF ok THEN [result |-> TRUE, sent |-> Some([key |-> key, value |-> value])]
    ELSE [result |-> FALSE, sent |-> None]

\* docker.py, _get_base_image (lines 103-116).
BaseImages ==
    ("react" :> "node:18-alpine") @@ ("vue" :> "node:18-alpine")
    @@ ("angular" :> "node:18-alpine") @@ ("express" :> "node:18-alpine")
    @@ ("spring-boot" :> "openjdk:17-jdk-slim")
    @@ ("django" :> "python:3.10-slim") @@ ("flask" :> "python:3.10-slim")
    @@ ("go" :> "golang:1.20-alpine") @@ ("rust" :> "rust:1.70-slim")

\* A variant of _get_base_image with a fault: an unknown framework gets the
\* default base image of DockerImageConfig.
GetBaseImageSchemaDefault(framework) ==
    IF framework \in DOMAIN BaseImages THEN BaseImages[framework]
    ELSE "node:18-alpine"

GetBaseImage(framework) ==
    IF framework \in DOMAIN BaseImages THEN BaseImages[framework]
    ELSE "ubuntu:22.04"

\* docker.py, _get_build_commands (lines 118-145).
GetBuildCommands(framework, service_type) ==
    IF service_type = "frontend" /\ framework \in {"react", "vue", "angular"}
    THEN <<"COPY package*.json ./", "RUN npm ci --only=production",
           "COPY . .", "RUN npm run build">>
    ELSE IF service_type = "backend" /\ framework \in {"express"}
    THEN <<"COPY package*.json ./", "RUN npm ci --only=production", "COPY . .">>
    ELSE IF service_type = "backend" /\ framework = "spring-boot"
    THEN <<"COPY build/libs/*.jar app.jar">>
    ELSE IF service_type = "backend" /\ framework \in {"django", "flask"}
    THEN <<"COPY requirements.txt .",
           "RUN pip install --no-cache-dir -r requirements.txt", "COPY . .">>
    ELSE <<"COPY . .">>

\* The frameworks and service types a DockerBuildRequest is sent with: those
\* of the tables and some that are in neither.
Frameworks == DOMAIN BaseImages \cup {"laravel", "", "React"}
ServiceTypes == {"frontend", "backend", "database", ""}

\* POST /dockerfile, docker.py lines 11-41.
DockerfileEndpoint(req, tmpl, client, ok) ==
    LET config == [base_image |-> GetBaseImage(req.framework),
                   workdir |-> "/app",
                   exposed_ports |-> req.ports,
                   commands |-> GetBuildCommands(req.framework, req.service_type)]
        content == [template |-> "docker/Dockerfile.j2", config |-> config]
        set == RedisSet(client,
                        "dockerfile:" \o req.project_id \o ":" \o req.service_name,
                        content, ok)
    IN  IF TemplateRaises("docker/Dockerfile.j2", tmpl)
        THEN Handled(config, ServerError(TemplateError("docker/Dockerfile.j2")),
                     None, <<>>)
        ELSE Handled(config,
                     Ok("Dockerfile generated successfully",
                        [dockerfile |-> content, service_name |-> req.service_name]),
                     set.sent, <<>>)

\* A POST /dockerfile request arrives: the handler runs to the await of
\* line 29, or to its response.
DockerfileRequest ==
    /\ api = NoCall
    /\ \E fw \in Frameworks, st \in ServiceTypes :
         LET req == [project_id |-> "P1", service_name |-> "svc",
                     service_type |-> st, framework |-> fw, ports |-> <<3000>>]
         IN  Called("dockerfile", req,
                    DockerfileEndpoint(req, templates, redis_client, TRUE))
    /\ UNCHANGED <<orchVars, templates, redis_client, producer, svcVars>>

\* Redis answers the SET of a suspended POST /dockerfile (or the client
\* raises) and the handler runs to its response.
DockerfileSetReturned ==
    /\ api = NoCall
    /\ \E p \in BagToSet(pending), ok \in BOOLEAN :
         /\ p.endpoint = "dockerfile"
         /\ Returned(p, DockerfileEndpoint(p.input, templates, redis_client, ok))
    /\ UNCHANGED <<orchVars, templates, redis_client, producer, svcVars>>

\* The services POST /docker-compose is sent with: dicts with or without the
\* keys name and image (a key that is missing is None here).
ComposeServiceDicts ==
    { [name |-> Some("api"), image |-> Some("api:1")],
      [name |-> Some("web"), image |-> None],
      [name |-> None, image |-> Some("x:1")] }
ComposeServiceLists ==
    {<<>>} \cup {<<a>> : a \in ComposeServiceDicts}
           \cup {<<a, b>> : a \in ComposeServiceDicts, b \in ComposeServiceDicts}

\* DockerService.generate_docker_compose (docker_service.py lines 36-70) of
\* the config the handler builds (docker.py lines 47-64): compose_services is
\* a dict, so of two services with one name the later one stays; a service
\* keeps the keys whose values are true, and every service is on the
\* gigapress network.
ComposeContent(services) ==
    LET names == {services[i].name[1] : i \in 1..Len(services)}
        last(n) == CHOOSE i \in 1..Len(services) :
                      /\ services[i].name[1] = n
                      /\ \A k \in 1..Len(services) :
                            services[k].name[1] = n => k <= i
    IN  [version |-> "3.8",
         services |-> [n \in names |->
                         [image |-> services[last(n)].image,
                          networks |-> <<"gigapress-network">>]],
         networks |-> ("gigapress-network" :> [driver |-> "bridge"])]

\* POST /docker-compose, docker.py lines 43-83: service["name"] raises
\* KeyError where the key is missing.
DockerComposeEndpoint(req, client, ok) ==
    IF \E i \in 1..Len(req.services) : req.services[i].name = None
    THEN Handled(<<>>, ServerError("'name'"), None, <<>>)
    ELSE LET content == ComposeContent(req.services)
             set == RedisSet(client, "docker-compose:" \o req.project_id,
                             content, ok)
         IN  Handled(content,
                     Ok("docker-compose.yml generated successfully",
                        [docker_compose |-> content,
                         services_count |-> Len(req.services)]),
                     set.sent, <<>>)

\* A POST /docker-compose request arrives: the handler runs to the await of
\* line 71, or to its response.
DockerComposeRequest ==
    /\ api = NoCall
    /\ \E svcs \in ComposeServiceLists :
         LET req == [project_id |-> "P1", services |-> svcs]
         IN  Called("docker_compose", req,
                    DockerComposeEndpoint(req, redis_client, TRUE))
    /\ UNCHANGED <<orchVars, templates, redis_client, producer, svcVars>>

\* Redis answers the SET of a suspended POST /docker-compose (or the client
\* raises) and the handler runs to its response.
DockerComposeSetReturned ==
    /\ api = NoCall
    /\ \E p \in BagToSet(pending), ok \in BOOLEAN :
         /\ p.endpoint = "docker_compose"
         /\ Returned(p, DockerComposeEndpoint(p.input, redis_client, ok))
    /\ UNCHANGED <<orchVars, templates, redis_client, producer, svcVars>>

\* CICDService.generate_build_workflow (cicd_service.py lines 47-62): the
\* workflow of the (project type, framework) pair, the default workflow for
\* every other pair.
GenerateBuildWorkflow(project_type, framework) ==
    IF project_type = "frontend" /\ framework \in {"react", "vue", "angular"}
    THEN framework
    ELSE IF project_type = "backend" /\ framework = "express" THEN "node"
    ELSE IF project_type = "backend" /\ framework = "spring-boot" THEN "java"
    ELSE IF project_type = "backend" /\ framework = "django" THEN "python"
    ELSE "default"

\* The pipeline types and build steps a CICDRequest is sent with.
PipelineTypes == {"github-actions", "jenkins", "gitlab-ci", "circleci", ""}
BuildSteps ==
    { <<>>,
      <<EmptyDict>>,
      <<{<<"type", JStr("frontend")>>, <<"framework", JStr("react")>>}>> }

\* The body of `try` of generate_cicd_pipeline up to the cache (cicd.py
\* lines 14-70): the pipeline text and the file name, or the exception.
\* build_steps[0] of an empty list raises IndexError; only the Jenkinsfile
\* comes from a template.
PipelineContent(req, tmpl) ==
    IF req.pipeline_type = "github-actions"
    THEN IF req.build_steps = <<>>
         THEN [err |-> "list index out of range", content |-> "", filename |-> ""]
         ELSE [err |-> "",
               content |-> "github-actions:"
                   \o GenerateBuildWorkflow(
                          Get(req.build_steps[1], "type", JStr("backend"))[2],
                          Get(req.build_steps[1], "framework", JStr("express"))[2]),
               filename |-> ".github/workflows/main.yml"]
    ELSE IF req.pipeline_type = "jenkins"
    THEN IF TemplateRaises("cicd/Jenkinsfile.j2", tmpl)
         THEN [err |-> TemplateError("cicd/Jenkinsfile.j2"), content |-> "",
               filename |-> ""]
         ELSE [err |-> "", content |-> "jenkins:" \o req.project_id,
               filename |-> "Jenkinsfile"]
    ELSE IF req.pipeline_type = "gitlab-ci"
    THEN [err |-> "", content |-> "gitlab-ci:" \o req.project_id,
          filename |-> ".gitlab-ci.yml"]
    ELSE [err |-> "", content |-> "", filename |-> ""]

\* POST /pipeline, cicd.py lines 10-87.
PipelineEndpoint(req, tmpl, client, ok) ==
    LET c == PipelineContent(req, tmpl)
        set == RedisSet(client,
                        "cicd:" \o req.project_id \o ":" \o req.pipeline_type,
                        c.content, ok)
    IN  IF c.err # "" THEN Handled(c, ServerError(c.err), None, <<>>)
        ELSE Handled(c,
                     Ok(req.pipeline_type \o " pipeline generated successfully",
                        [pipeline |-> c.content, filename |-> c.filename,
                         type |-> req.pipeline_type]),
                     set.sent, <<>>)

\* A POST /pipeline request arrives: the handler runs to the await of line
\* 74, or to its response.
PipelineRequest ==
    /\ api = NoCall
    /\ \E pt \in PipelineTypes, steps \in BuildSteps :
         LET req == [project_id |-> "P1", pipeline_type |-> pt, build_steps |-> steps]
         IN  Called("pipeline", req,
                    PipelineEndpoint(req, templates, redis_client, TRUE))
    /\ UNCHANGED <<orchVars, templates, redis_client, producer, svcVars>>

\* Redis answers the SET of a suspended POST /pipeline (or the client raises)
\* and the handler runs to its response.
PipelineSetReturned ==
    /\ api = NoCall
    /\ \E p \in BagToSet(pending), ok \in BOOLEAN :
         /\ p.endpoint = "pipeline"
         /\ Returned(p, PipelineEndpoint(p.input, templates, redis_client, ok))
    /\ UNCHANGED <<orchVars, templates, redis_client, producer, svcVars>>

\* The cloud providers and infrastructure types an IaCRequest is sent with.
CloudProviders == {"aws", "gcp", "azure", "digitalocean"}
InfrastructureTypes == {"kubernetes", "serverless"}

\* `providers` of generate_terraform_config (terraform.py lines 16-34): the
\* names of the TerraformProvider objects.
TerraformProviders(cloud_provider) ==
    IF cloud_provider = "aws" THEN <<"aws">>
    ELSE IF cloud_provider = "gcp" THEN <<"google">>
    ELSE IF cloud_provider = "azure" THEN <<"azurerm">>
    ELSE <<>>

\* The three files of generate_terraform_config (lines 47-76), or the error
\* of the first template that is missing.  request.dict() has none of the
\* keys vpc, eks, gke, aks, so `resources` is always the empty list.
TerraformFiles(req, tmpl) ==
    LET paths == <<"terraform/main.tf.j2", "terraform/variables.tf.j2",
                   "terraform/outputs.tf.j2">>
        bad == {k \in 1..3 : TemplateRaises(paths[k], tmpl)}
    IN  IF bad # {}
        THEN [err |-> TemplateError(paths[CHOOSE k \in bad : \A m \in bad : k <= m]),
              files |-> <<>>]
        ELSE [err |-> "",
              files |-> << [name |-> "main.tf",
                            content |-> [template |-> paths[1],
                                         providers |-> TerraformProviders(req.cloud_provider)]],
                           [name |-> "variables.tf",
                            content |-> [template |-> paths[2], providers |-> <<>>]],
                           [name |-> "outputs.tf",
                            content |-> [template |-> paths[3], providers |-> <<>>]] >>]

\* POST /generate, terraform.py lines 11-93.
TerraformEndpoint(req, tmpl, client, ok) ==
    LET f == TerraformFiles(req, tmpl)
        set == RedisSet(client,
                        "terraform:" \o req.project_id \o ":" \o req.cloud_provider,
                        f.files, ok)
    IN  IF f.err # "" THEN Handled(f, ServerError(f.err), None, <<>>)
        ELSE Handled(f,
                     Ok("Terraform configuration generated successfully",
                        [files |-> f.files, cloud_provider |-> req.cloud_provider,
                         infrastructure_type |-> req.infrastructure_type]),
                     set.sent, <<>>)

\* A POST /generate request arrives: the handler runs to the await of line
\* 80, or to its response.
TerraformRequest ==
    /\ api = NoCall
    /\ \E cp \in CloudProviders, it \in InfrastructureTypes :
         LET req == [project_id |-> "P1", cloud_provider |-> cp,
                     infrastructure_type |-> it]
         IN  Called("terraform", req,
                    TerraformEndpoint(req, templates, redis_client, TRUE))
    /\ UNCHANGED <<orchVars, templates, redis_client, producer, svcVars>>

\* Redis answers the SET of a suspended POST /generate (or the client raises) and
\* the handler runs to its response.
TerraformSetReturned ==
    /\ api = NoCall
    /\ \E p \in BagToSet(pending), ok \in BOOLEAN :
         /\ p.endpoint = "terraform"
         /\ Returned(p, TerraformEndpoint(p.input, templates, redis_client, ok))
    /\ UNCHANGED <<orchVars, templates, redis_client, producer, svcVars>>

\* The entries of K8sManifestRequest.services: dicts with or without the keys
\* name, image and ports (a key that is missing is None here).
ServiceDicts ==
    { [name |-> Some("api"), image |-> Some("api:1"), ports |-> Some(<<8080>>)],
      [name |-> Some("web"), image |-> Some("web:1"), ports |-> None],
      [name |-> Some("db"), image |-> Some("db:1"), ports |-> Some(<<>>)],
      [name |-> Some("job"), image |-> None, ports |-> Some(<<8080>>)],
      [name |-> None, image |-> Some("x:1"), ports |-> Some(<<8080>>)] }

\* A manifest rendered from a template; the kustomization, which yaml.dump
\* writes from the names of the manifests before it (and a variant with a
\* fault, which is appended to the list before its resources are read).
Manifest(name, path) ==
    [name |-> name, content |-> [template |-> path, resources |-> <<>>]]
KustomizationListsItself(names) ==
    [name |-> "kustomization.yaml",
     content |-> [template |-> "", resources |-> Append(names, "kustomization.yaml")]]
Kustomization(names) ==
    [name |-> "kustomization.yaml",
     content |-> [template |-> "", resources |-> names]]

\* The loop over request.services of generate_k8s_manifests (kubernetes.py
\* lines 27-60), from the k-th service on: service["name"] and
\* service["image"] raise KeyError where the key is missing, the Deployment
\* and the Service are rendered from their templates.
RECURSIVE ServiceManifests(_, _, _)
ServiceManifests(services, k, tmpl) ==
    IF k > Len(services) THEN [err |-> "", manifests |-> <<>>]
    ELSE IF services[k].name = None THEN [err |-> "'name'", manifests |-> <<>>]
    ELSE IF services[k].image = None THEN [err |-> "'image'", manifests |-> <<>>]
    ELSE IF TemplateRaises("kubernetes/deployment.yaml.j2", tmpl)
    THEN [err |-> TemplateError("kubernetes/deployment.yaml.j2"), manifests |-> <<>>]
    ELSE IF TemplateRaises("kubernetes/service.yaml.j2", tmpl)
    THEN [err |-> TemplateError("kubernetes/service.yaml.j2"), manifests |-> <<>>]
    ELSE LET rest == ServiceManifests(services, k + 1, tmpl)
         IN  IF rest.err # "" THEN rest
             ELSE [err |-> "",
                   manifests |->
                     << Manifest(services[k].name[1] \o "-deployment.yaml",
                                 "kubernetes/deployment.yaml.j2"),
                        Manifest(services[k].name[1] \o "-service.yaml",
                                 "kubernetes/service.yaml.j2") >>
                     \o rest.manifests]

\* `if request.enable_ingress:` (lines 63-87): services[0]["ports"][0] raises
\* IndexError without a service or with an empty port list, KeyError without
\* the key.
IngressManifests(req, tmpl) ==
    IF ~req.enable_ingress THEN [err |-> "", manifests |-> <<>>]
    ELSE IF req.services = <<>>
    THEN [err |-> "list index out of range", manifests |-> <<>>]
    ELSE IF req.services[1].ports = None THEN [err |-> "'ports'", manifests |-> <<>>]
    ELSE IF req.services[1].ports[1] = <<>>
    THEN [err |-> "list index out of range", manifests |-> <<>>]
    ELSE IF TemplateRaises("kubernetes/ingress.yaml.j2", tmpl)
    THEN [err |-> TemplateError("kubernetes/ingress.yaml.j2"), manifests |-> <<>>]
    ELSE [err |-> "",
          manifests |-> <<Manifest("ingress.yaml", "kubernetes/ingress.yaml.j2")>>]

\* `if request.enable_hpa:` (lines 90-103).
HpaManifests(req, tmpl) ==
    IF ~req.enable_hpa \/ req.services = <<>> THEN [err |-> "", manifests |-> <<>>]
    ELSE IF TemplateRaises("kubernetes/hpa.yaml.j2", tmpl)
    THEN [err |-> TemplateError("kubernetes/hpa.yaml.j2"), manifests |-> <<>>]
    ELSE [err |-> "",
          manifests |-> [i \in 1..Len(req.services) |->
                           Manifest(req.services[i].name[1] \o "-hpa.yaml",
                                    "kubernetes/hpa.yaml.j2")]]

\* The body of `try` of generate_k8s_manifests up to the cache (lines 15-112).
K8sManifests(req, tmpl) ==
    LET svc == ServiceManifests(req.services, 1, tmpl)
        ing == IngressManifests(req, tmpl)
        hpa == HpaManifests(req, tmpl)
        before == <<Manifest("namespace.yaml", "kubernetes/namespace.yaml.j2")>>
                    \o svc.manifests \o ing.manifests \o hpa.manifests
    IN  IF TemplateRaises("kubernetes/namespace.yaml.j2", tmpl)
        THEN [err |-> TemplateError("kubernetes/namespace.yaml.j2"), manifests |-> <<>>]
        ELSE IF svc.err # "" THEN svc
        ELSE IF ing.err # "" THEN ing
        ELSE IF hpa.err # "" THEN hpa
        ELSE [err |-> "",
              manifests |->
                Append(before,
                       Kustomization([i \in 1..Len(before) |-> before[i].name]))]

\* POST /manifests, kubernetes.py lines 11-128.
K8sManifestsEndpoint(req, tmpl, client, ok) ==
    LET m == K8sManifests(req, tmpl)
        set == RedisSet(client,
                        "k8s-manifests:" \o req.project_id \o ":" \o req.environment,
                        m.manifests, ok)
    IN  IF m.err # "" THEN Handled(m, ServerError(m.err), None, <<>>)
        ELSE Handled(m,
                     Ok("Kubernetes manifests generated successfully",
                        [manifests |-> m.manifests, total_files |-> Len(m.manifests)]),
                     set.sent, <<>>)

\* The service lists a K8sManifestRequest is sent with.
ServiceLists ==
    {<<>>} \cup {<<a>> : a \in ServiceDicts}
           \cup {<<a, b>> : a \in ServiceDicts, b \in ServiceDicts}

\* A POST /manifests request arrives: the handler runs to the await of line
\* 116, or to its response.
K8sManifestsRequest ==
    /\ api = NoCall
    /\ \E svcs \in ServiceLists, ing \in BOOLEAN, hpa \in BOOLEAN :
         LET req == [project_id |-> "P1", environment |-> "dev", services |-> svcs,
                     enable_ingress |-> ing, enable_hpa |-> hpa]
         IN  Called("manifests", req,
                    K8sManifestsEndpoint(req, templates, redis_client, TRUE))
    /\ UNCHANGED <<orchVars, templates, redis_client, producer, svcVars>>

\* Redis answers the SET of a suspended POST /manifests (or the client raises) and
\* the handler runs to its response.
K8sManifestsSetReturned ==
    /\ api = NoCall
    /\ \E p \in BagToSet(pending), ok \in BOOLEAN :
         /\ p.endpoint = "manifests"
         /\ Returned(p, K8sManifestsEndpoint(p.input, templates, redis_client, ok))
    /\ UNCHANGED <<orchVars, templates, redis_client, producer, svcVars>>

\* KafkaService.publish_event (kafka_service.py lines 87-91): nothing without
\* a producer; otherwise producer.send hands the event to the producer, or
\* raises.  send is awaited, its delivery future is not.
PublishEvent(prod, topic, event, send_ok) ==
    IF ~prod THEN [raised |-> FALSE, sent |-> <<>>]
    ELSE IF send_ok THEN [raised |-> FALSE, sent |-> <<[topic |-> topic, value |-> event]>>]
    ELSE [raised |-> TRUE, sent |-> <<>>]

\* The git operations a handler called, in order, with the bool each returned.
GitCalls(ops, g) == [i \in 1..Len(ops) |-> [op |-> ops[i], ok |-> g[ops[i]]]]

\* A variant with a fault: a failed initial commit is answered with an error.
GitInitRestChecksCommit(req, g, prod, send_ok) ==
    LET ops == <<"init_repository">>
               \o (IF req.gitignore_template # "" THEN <<"create_gitignore">> ELSE <<>>)
               \o (IF req.include_readme THEN <<"create_readme">> ELSE <<>>)
               \o <<"commit">>
        pub == PublishEvent(prod, "git-events",
                            [event |-> "repository_initialized",
                             project_id |-> req.project_id,
                             repo_name |-> req.repo_name,
                             message |-> None], send_ok)
    IN  IF ~g["commit"]
        THEN Handled(GitCalls(ops, g), ServerError("Failed to create commit"), None, <<>>)
        ELSE IF pub.raised
        THEN Handled(GitCalls(ops, g), ServerError("KafkaError"), None, <<>>)
        ELSE Handled(GitCalls(ops, g),
                     Ok("Repository initialized successfully",
                        [project_id |-> req.project_id, repo_name |-> req.repo_name,
                         default_branch |-> "main"]),
                     None, pub.sent)

\* The rest of initialize_repository once init_repository has returned
\* (git.py lines 25-67): the bools of create_gitignore, create_readme and
\* commit are ignored.
GitInitRest(req, g, prod, send_ok) ==
    LET ops == <<"init_repository">>
               \o (IF req.gitignore_template # "" THEN <<"create_gitignore">> ELSE <<>>)
               \o (IF req.include_readme THEN <<"create_readme">> ELSE <<>>)
               \o <<"commit">>
        pub == PublishEvent(prod, "git-events",
                            [event |-> "repository_initialized",
                             project_id |-> req.project_id,
                             repo_name |-> req.repo_name,
                             message |-> None], send_ok)
    IN  IF pub.raised
        THEN Handled(GitCalls(ops, g), ServerError("KafkaError"), None, <<>>)
        ELSE Handled(GitCalls(ops, g),
                     Ok("Repository initialized successfully",
                        [project_id |-> req.project_id, repo_name |-> req.repo_name,
                         default_branch |-> "main"]),
                     None, pub.sent)

\* A variant of initialize_repository with a fault: the bool of
\* init_repository is ignored like the others.
GitInitEndpointIgnoresResult(req, g, prod, send_ok, has_str) ==
    GitInitRest(req, g, prod, send_ok)

\* POST /init, git.py lines 10-70.  The HTTPException of line 23 is caught at
\* line 69 and raised again with str(e) as its detail.
GitInitEndpoint(req, g, prod, send_ok, has_str) ==
    IF ~g["init_repository"]
    THEN Handled(GitCalls(<<"init_repository">>, g),
                 ServerError(HTTPExceptionStr(500, "Failed to initialize repository",
                                              has_str)),
                 None, <<>>)
    ELSE GitInitRest(req, g, prod, send_ok)

\* POST /commit, git.py lines 72-98.
GitCommitEndpoint(req, g, prod, send_ok, has_str) ==
    LET pub == PublishEvent(prod, "git-events",
                            [event |-> "commit_created",
                             project_id |-> req.project_id,
                             repo_name |-> req.repo_name,
                             message |-> Some(req.message)], send_ok)
    IN  IF ~g["commit"]
        THEN Handled(GitCalls(<<"commit">>, g),
                     ServerError(HTTPExceptionStr(500, "Failed to create commit",
                                                  has_str)),
                     None, <<>>)
        ELSE IF pub.raised
        THEN Handled(GitCalls(<<"commit">>, g), ServerError("KafkaError"), None, <<>>)
        ELSE Handled(GitCalls(<<"commit">>, g),
                     Ok("Commit created successfully",
                        [message |-> req.message, files |-> <<".">>]),
                     None, pub.sent)

\* The bools the operations of GitService may return.
GitOps == {"init_repository", "create_gitignore", "create_readme", "commit"}
GitResults == [GitOps -> BOOLEAN]

\* The bools a suspended handler got from the operations it called (the
\* others were not called).
GitResultsOf(results) ==
    [op \in GitOps |->
       \A k \in DOMAIN results : results[k].op = op => results[k].ok]

\* A POST /init request arrives: the handler runs to the await of line 53,
\* or to its response.
GitInitRequest ==
    /\ api = NoCall
    /\ \E tpl \in {"node", ""}, readme \in BOOLEAN, g \in GitResults,
          has_str \in BOOLEAN :
         LET req == [project_id |-> "P1", repo_name |-> "app",
                     gitignore_template |-> tpl, include_readme |-> readme]
         IN  Called("git_init", req,
                    GitInitEndpoint(req, g, producer, TRUE, has_str))
    /\ UNCHANGED <<orchVars, templates, redis_client, producer, svcVars>>

\* The producer has taken the event of a suspended POST /init (or send has
\* raised) and the handler runs to its response.
GitInitSendReturned ==
    /\ api = NoCall
    /\ \E p \in BagToSet(pending), send_ok \in BOOLEAN, has_str \in BOOLEAN :
         /\ p.endpoint = "git_init"
         /\ Returned(p, GitInitEndpoint(p.input, GitResultsOf(p.results), producer,
                                        send_ok, has_str))
    /\ UNCHANGED <<orchVars, templates, redis_client, producer, svcVars>>

\* A POST /commit request arrives: the handler runs to the await of line 81,
\* or to its response.
GitCommitRequest ==
    /\ api = NoCall
    /\ \E g \in GitResults, has_str \in BOOLEAN :
         LET req == [project_id |-> "P1", repo_name |-> "app", message |-> "wip"]
         IN  Called("git_commit", req,
                    GitCommitEndpoint(req, g, producer, TRUE, has_str))
    /\ UNCHANGED <<orchVars, templates, redis_client, producer, svcVars>>

\* The producer has taken the event of a suspended POST /commit (or send has
\* raised) and the handler runs to its response.
GitCommitSendReturned ==
    /\ api = NoCall
    /\ \E p \in BagToSet(pending), send_ok \in BOOLEAN, has_str \in BOOLEAN :
         /\ p.endpoint = "git_commit"
         /\ Returned(p, GitCommitEndpoint(p.input, GitResultsOf(p.results), producer,
                                          send_ok, has_str))
    /\ UNCHANGED <<orchVars, templates, redis_client, producer, svcVars>>

\* MonitoringRequest.monitoring_stack values: the stack is tested with `in`.
MonitoringStacks == SUBSET {"prometheus", "grafana"}

\* POST /setup, monitoring.py lines 11-119.  The prometheus and alert files
\* are yaml.dump output, the dashboard is a dict, the logging configuration
\* is rendered from a template (monitoring_service.py lines 74-80).
MonitoringEndpoint(req, tmpl, client, ok) ==
    LET path == "monitoring/fluentd.conf.j2"
        files == (IF "prometheus" \in req.monitoring_stack
                  THEN <<[name |-> "prometheus.yml", content |-> "yaml"],
                         [name |-> "alerts.yml", content |-> "yaml"]>>
                  ELSE <<>>)
                 \o (IF "grafana" \in req.monitoring_stack
                     THEN <<[name |-> "dashboard.json", content |-> "dashboard"]>>
                     ELSE <<>>)
                 \o (IF req.log_aggregation
                     THEN <<[name |-> "fluentd.conf", content |-> path]>>
                     ELSE <<>>)
        err == IF req.log_aggregation /\ TemplateRaises(path, tmpl)
               THEN TemplateError(path) ELSE ""
        set == RedisSet(client, "monitoring:" \o req.project_id, files, ok)
    IN  IF err # "" THEN Handled([err |-> err], ServerError(err), None, <<>>)
        ELSE Handled([err |-> ""],
                     Ok("Monitoring configuration generated successfully",
                        [files |-> files, stack |-> req.monitoring_stack,
                         features |-> [metrics |-> TRUE,
                                       logging |-> req.log_aggregation,
                                       tracing |-> req.tracing,
                                       alerting |-> Len(req.alerting_channels) > 0]]),
                     set.sent, <<>>)

\* A POST /setup request arrives: the handler runs to the await of line 102,
\* or to its response.
MonitoringRequest ==
    /\ api = NoCall
    /\ \E stack \in MonitoringStacks, log \in BOOLEAN :
         LET req == [project_id |-> "P1", monitoring_stack |-> stack,
                     log_aggregation |-> log, tracing |-> TRUE,
                     alerting_channels |-> <<"email", "slack">>]
         IN  Called("monitoring", req,
                    MonitoringEndpoint(req, templates, redis_client, TRUE))
    /\ UNCHANGED <<orchVars, templates, redis_client, producer, svcVars>>

\* Redis answers the SET of a suspended POST /setup (or the client raises) and
\* the handler runs to its response.
MonitoringSetReturned ==
    /\ api = NoCall
    /\ \E p \in BagToSet(pending), ok \in BOOLEAN :
         /\ p.endpoint = "monitoring"
         /\ Returned(p, MonitoringEndpoint(p.input, templates, redis_client, ok))
    /\ UNCHANGED <<orchVars, templates, redis_client, producer, svcVars>>

\* RedisService.get, set and delete (redis_service.py lines 34-69) without
\* their except clauses.  What the Redis call does: get finds a JSON value,
\* finds nothing, or finds a value json.loads rejects; any call may raise.
RedisOps == {"get", "set", "delete"}
RedisOutcomes(op) ==
    IF op = "get" THEN {"hit", "miss", "bad_json", "raises"} ELSE {"ok", "raises"}
RedisTry(op, client, outcome) ==
    IF op = "get"
    THEN IF ~client THEN [raised |-> FALSE, value |-> None]
         ELSE IF outcome = "hit" THEN [raised |-> FALSE, value |-> Some("cached")]
         ELSE IF outcome = "miss" THEN [raised |-> FALSE, value |-> None]
         ELSE [raised |-> TRUE, value |-> None]
    ELSE IF ~client THEN [raised |-> FALSE, value |-> FALSE]
         ELSE IF outcome = "ok" THEN [raised |-> FALSE, value |-> TRUE]
         ELSE [raised |-> TRUE, value |-> FALSE]

\* A variant with a fault: the except clauses are missing.
RedisCallPropagates(op, client, outcome) == RedisTry(op, client, outcome)

\* RedisService.get, set and delete: `except Exception` logs and returns
\* None (get) or False (set, delete).
RedisCall(op, client, outcome) ==
    LET t == RedisTry(op, client, outcome)
    IN  IF t.raised
        THEN [raised |-> FALSE, value |-> IF op = "get" THEN None ELSE FALSE]
        ELSE t

\* One of the three operations of RedisService is called: with a client it
\* is suspended in its Redis command, without one it returns at once.
RedisRequest(op) ==
    /\ api = NoCall
    /\ IF redis_client
       THEN \E key \in {"kA", "kB"} : Suspend("redis_" \o op, key, <<>>, <<op, key>>)
       ELSE /\ InProgress < MaxInFlight
            /\ pending' = pending
            /\ api' = [endpoint |-> "redis_" \o op, input |-> "no_client",
                       work |-> <<>>,
                       response |-> RedisCall(op, redis_client, "no_client"),
                       cache_set |-> None, published |-> <<>>]
    /\ UNCHANGED <<orchVars, templates, redis_client, producer, svcVars>>

\* Redis answers the command of a suspended operation of RedisService (or
\* the client raises) and the operation returns.
RedisAnswered(op) ==
    /\ api = NoCall
    /\ \E p \in BagToSet(pending), outcome \in RedisOutcomes(op) :
         /\ p.endpoint = "redis_" \o op
         /\ pending' = pending (-) SetToBag({p})
         /\ api' = [endpoint |-> "redis_" \o op, input |-> outcome,
                    work |-> <<>>,
                    response |-> RedisCall(op, redis_client, outcome),
                    cache_set |-> None, published |-> <<>>]
    /\ UNCHANGED <<orchVars, templates, redis_client, producer, svcVars>>

\* The caller has received the result of the call.
Deliver ==
    /\ api # NoCall
    /\ api' = NoCall
    /\ UNCHANGED <<orchVars, templates, pending, redis_client, producer, svcVars>>

InitApi ==
    /\ requests = <<>>
    /\ jobs = <<>>
    /\ now = 0
    /\ polled = NoPoll
    /\ templates \in {ApiTemplateFiles \ m : m \in {x \in SUBSET ApiTemplateFiles :
                                                     Cardinality(x) <= MaxMissing}}
    /\ api = NoCall
    /\ pending = EmptyBag
    /\ redis_client \in BOOLEAN
    /\ producer \in BOOLEAN
    /\ LifespanNotEntered

NextApi ==
    \/ \E op \in GatewayReads : GatewayRequest(op)
    \/ \E op \in GatewayReads : GatewayAnswered(op)
    \/ NotifyRequest
    \/ NotifyAnswered
    \/ DockerfileRequest
    \/ DockerfileSetReturned
    \/ DockerComposeRequest
    \/ DockerComposeSetReturned
    \/ PipelineRequest
    \/ PipelineSetReturned
    \/ TerraformRequest
    \/ TerraformSetReturned
    \/ K8sManifestsRequest
    \/ K8sManifestsSetReturned
    \/ GitInitRequest
    \/ GitInitSendReturned
    \/ GitCommitRequest
    \/ GitCommitSendReturned
    \/ MonitoringRequest
    \/ MonitoringSetReturned
    \/ \E op \in RedisOps : RedisRequest(op)
    \/ \E op \in RedisOps : RedisAnswered(op)
    \/ Deliver

SpecApi == InitApi /\ [][NextApi]_vars

\* ------------------------------------------------------------- claims
Terminal(st) == st.status \in {"completed", "failed"}

\* C1: in every reachable state of a job's status record,
\* progress_percentage is 100 if and only if status is 'completed'.
C1_FullProgressIffCompleted ==
    \A i \in DOMAIN jobs :
        (jobs[i].status.progress_percentage = Pct8)
            <=> (jobs[i].status.status = "completed")

\* A job has ended 'failed' after progress was made, and shows less than 100.
C1_Witness ==
    \E i \in DOMAIN jobs :
        /\ jobs[i].status.status = "failed"
        /\ jobs[i].status.progress_percentage >= Pct3
        /\ jobs[i].status.progress_percentage < Pct8

\* C2: over any run of generate_infrastructure_async, progress_percentage
\* never decreases from one state to the next and stays within [0, 100].
C2_ProgressMonotone ==
    [][ /\ \A i \in DOMAIN jobs' :
              jobs'[i].status.progress_percentage \in 0..Pct8
        /\ \A i \in DOMAIN jobs :
              jobs[i].status.progress_percentage
                  <= jobs'[i].status.progress_percentage ]_vars

\* A run that failed in a step after progress had advanced several times.
C2_Witness ==
    \E i \in DOMAIN jobs :
        /\ jobs[i].pc = "done"
        /\ jobs[i].raised_at >= 3
        /\ jobs[i].status.progress_percentage = Pct1 * jobs[i].raised_at

\* C3: in every reachable state, completed_at is set if and only if status is
\* 'completed' or 'failed', and over the whole run completed_at is assigned
\* exactly once.
C3_CompletedAtIffTerminal ==
    \A i \in DOMAIN jobs :
        /\ (jobs[i].status.completed_at # None) <=> Terminal(jobs[i].status)
        /\ jobs[i].completed_at_writes = IF Terminal(jobs[i].status) THEN 1 ELSE 0
        /\ jobs[i].pc = "done" => Terminal(jobs[i].status)

\* A job has made its terminal transition and carries its completion time.
C3_Witness ==
    \E i \in DOMAIN jobs :
        /\ jobs[i].pc = "done"
        /\ jobs[i].status.status = "failed"
        /\ jobs[i].status.completed_at # None
        /\ jobs[i].status.completed_at[1] > jobs[i].status.started_at

\* The step (1..8) in which the task makes a call.
StepOfCall(op) ==
    CASE op \in {"init_repository", "create_gitignore", "create_readme"} -> 1
      [] op \in {"get_backend_config", "get_frontend_config",
                 "generate_dockerfile:backend", "generate_dockerfile:frontend"} -> 2
      [] op \in {"generate_deployment:backend", "generate_deployment:frontend"} -> 3
      [] op \in {"generate_build_workflow", "generate_github_actions"} -> 4
      [] op \in {"generate_aws_resources", "generate_main_tf"} -> 5
      [] op \in {"generate_default_scrape_configs", "generate_prometheus_config"} -> 6
      [] op = "commit" -> 7
      [] op = "notify_infra_ready" -> 8

\* The label and the progress a step writes when it starts.
StepLabel(k) ==
    CASE k = 1 -> "Initializing Git repository"
      [] k = 2 -> "Generating Docker configurations"
      [] k = 3 -> "Generating Kubernetes manifests"
      [] k = 4 -> "Generating CI/CD pipelines"
      [] k = 5 -> "Generating Terraform configuration"
      [] k = 6 -> "Generating monitoring configuration"
      [] k = 7 -> "Committing configurations"
      [] k = 8 -> "Finalizing"

\* C4: if a step raises, no later step is started (no later label is set, no
\* later generator, git or gateway call is made), the error's description is
\* appended to errors exactly once, status becomes 'failed', completed_at is
\* set, and the error does not escape to the caller of the start request.
C4_StepFailureAborts ==
    \A i \in DOMAIN jobs :
        jobs[i].raised_at > 0 =>
            /\ jobs[i].pc = "done"
            /\ jobs[i].outcome = "returned"
            /\ jobs[i].status.status = "failed"
            /\ Len(jobs[i].status.errors) = 1
            /\ jobs[i].status.errors[1] # ""
            /\ jobs[i].status.completed_at # None
            /\ jobs[i].status.current_step = StepLabel(jobs[i].raised_at)
            /\ jobs[i].status.progress_percentage = Pct1 * jobs[i].raised_at
            /\ \A c \in DOMAIN jobs[i].calls :
                  StepOfCall(jobs[i].calls[c].op) <= jobs[i].raised_at
            /\ requests[jobs[i].req].response = Acknowledgment

\* A job whose container-artifact step raised (a template is missing or a
\* port is rejected) after the repository was initialised.
C4_Witness ==
    \E i \in DOMAIN jobs :
        /\ jobs[i].raised_at = 2
        /\ jobs[i].pc = "done"
        /\ \E c \in DOMAIN jobs[i].calls : jobs[i].calls[c].op = "init_repository"

\* Every request is answered and every task has returned.
Quiescent ==
    /\ \A r \in DOMAIN requests : requests[r].pc = "answered"
    /\ \A i \in DOMAIN jobs : jobs[i].pc = "done"

\* C5 as stated: when get_project_info returns absent for a start request, a
\* job exists for that project whose status ends 'failed', whose progress is 0
\* and whose errors hold a message.
C5_AbsentMetadataFailsJob ==
    \A r \in DOMAIN requests :
        (Quiescent /\ requests[r].project_info = None) =>
            \E i \in DOMAIN jobs :
                /\ jobs[i].project_id = requests[r].project_id
                /\ jobs[i].status.status = "failed"
                /\ jobs[i].status.progress_percentage = 0
                /\ jobs[i].status.errors # <<>>

\* C5 as amended: when get_project_info returns absent for a start request,
\* the request is answered with an error response (HTTP 500 whose detail is
\* the description of the "Project not found" exception) and no job, hence
\* no status record, is created for it.
C5_AbsentMetadataNoJob ==
    \A r \in DOMAIN requests :
        (requests[r].pc = "answered" /\ requests[r].project_info = None) =>
            /\ requests[r].response.status_code = 500
            /\ ~requests[r].response.success
            /\ requests[r].response.detail \in {"404: Project not found", ""}
            /\ \A i \in DOMAIN jobs : jobs[i].req # r

\* A start request whose metadata lookup returned absent has been answered.
C5_Witness ==
    \E r \in DOMAIN requests :
        /\ requests[r].pc = "answered"
        /\ requests[r].project_info = None
        /\ requests[r].response # NoResponse

\* The project metadata names the project and every template is in place.
GoodRun(j) ==
    /\ j.pc = "done"
    /\ IsStr(Get(j.project_info, "name", JStr(j.project_id)))
    /\ templates = TemplateFiles

Populated(infra) ==
    /\ DOMAIN infra.docker # {}
    /\ "manifests" \in DOMAIN infra.kubernetes
    /\ infra.kubernetes["manifests"] # <<>>
    /\ DOMAIN infra.cicd # {}
    /\ infra.terraform # None
    /\ DOMAIN infra.monitoring # {}

\* C6: a job whose metadata lookup succeeded and whose backend (port 3000)
\* and frontend (port 3001) configs are both present ends 'completed' with
\* progress 100 and with the docker, kubernetes, cicd, terraform and
\* monitoring categories populated.
C6_BothConfigsComplete ==
    \A i \in DOMAIN jobs :
        ( /\ GoodRun(jobs[i])
          /\ jobs[i].backend_config = Some({<<"port", JInt("3000")>>})
          /\ jobs[i].frontend_config = Some({<<"port", JInt("3001")>>}) ) =>
            /\ jobs[i].status.status = "completed"
            /\ jobs[i].status.progress_percentage = Pct8
            /\ Populated(jobs[i].infra)

ManifestNames(infra) ==
    IF "manifests" \in DOMAIN infra.kubernetes
    THEN {infra.kubernetes["manifests"][k].name :
             k \in DOMAIN infra.kubernetes["manifests"]}
    ELSE {}

\* C7: a job for which get_backend_config returned absent and
\* get_frontend_config returned a config ends 'completed' with progress 100,
\* with the frontend Dockerfile and deployment and without the backend ones.
C7_FrontendOnlyCompletes ==
    \A i \in DOMAIN jobs :
        ( /\ GoodRun(jobs[i])
          /\ jobs[i].backend_config = None
          /\ jobs[i].frontend_config = Some({<<"port", JInt("3001")>>}) ) =>
            /\ jobs[i].status.status = "completed"
            /\ jobs[i].status.progress_percentage = Pct8
            /\ DOMAIN jobs[i].infra.docker = {"frontend"}
            /\ ManifestNames(jobs[i].infra) = {"frontend-deployment.yaml"}

\* C8: in every state of a job's status record, errors being non-empty
\* implies status = 'failed'.
C8_ErrorsImplyFailed ==
    \A i \in DOMAIN jobs :
        jobs[i].status.errors # <<>> => jobs[i].status.status = "failed"

\* A job has recorded an error.
C8_Witness ==
    \E i \in DOMAIN jobs :
        /\ jobs[i].status.errors # <<>>
        /\ jobs[i].raised_at > 0

\* The job a status store would hold for project p: the latest one started
\* for it, 0 when none was.
LatestJob(js, p) ==
    LET mine == {i \in DOMAIN js : js[i].project_id = p}
    IN  IF mine = {} THEN 0 ELSE CHOOSE i \in mine : \A k \in mine : k <= i

\* What C9 asks of the answer to a get-status request for p: the fields of
\* the status record of p's job as they are, "not found" when p has no job.
AnswerIsCurrent(resp, js, p) ==
    IF LatestJob(js, p) = 0
    THEN ~resp.success \/ resp.status_code = 404
    ELSE /\ resp.success
         /\ resp.data_status = js[LatestJob(js, p)].status.status
         /\ resp.data_step = js[LatestJob(js, p)].status.current_step
         /\ resp.data_progress = js[LatestJob(js, p)].status.progress_percentage

\* C9: a get-status request for p, issued at any point, returns the current
\* status record of p's job, and 'not found' when no job was started for p.
C9_StatusReturnsCurrentRecord ==
    [][ polled' # polled =>
          AnswerIsCurrent(polled'.response, jobs', polled'.project_id) ]_vars

\* C10: an accepted start request answers {project_id, status: in_progress}
\* before any step of the sequence has started (the task it scheduled has
\* made no call and written no step label), and the task runs only after the
\* response, without touching the request again.
C10_ResponseBeforeSteps ==
    [][ /\ \A r \in DOMAIN requests :
              ( /\ requests[r].pc = "await_info"
                /\ requests'[r].pc = "answered"
                /\ requests'[r].response.status_code = 200 ) =>
                  /\ requests'[r].response = Acknowledgment
                  /\ Len(jobs') = Len(jobs) + 1
                  /\ jobs'[Len(jobs')].req = r
                  /\ jobs'[Len(jobs')].pc = "scheduled"
                  /\ jobs'[Len(jobs')].calls = <<>>
                  /\ jobs'[Len(jobs')].status.status = "in_progress"
                  /\ jobs'[Len(jobs')].status.current_step = "Initializing"
                  /\ jobs'[Len(jobs')].status.progress_percentage = 0
        /\ \A i \in DOMAIN jobs :
              jobs'[i] # jobs[i] =>
                  /\ requests[jobs[i].req].pc = "answered"
                  /\ requests' = requests ]_vars

\* A task is in the middle of the sequence; its start request was answered
\* with the acknowledgment.
C10_Witness ==
    \E i \in DOMAIN jobs :
        /\ jobs[i].pc = "await_frontend"
        /\ requests[jobs[i].req].response = Acknowledgment

\* C11: once a job's status is 'completed' or 'failed', no later action
\* changes any field of its status record (status, current_step,
\* progress_percentage, messages, errors, completed_at).
C11_TerminalImmutable ==
    [][ \A i \in DOMAIN jobs :
            Terminal(jobs[i].status) => jobs'[i].status = jobs[i].status ]_vars

\* A job is terminal, its task has returned, and a get-status request was
\* answered.
C11_Witness ==
    \E i \in DOMAIN jobs :
        /\ Terminal(jobs[i].status)
        /\ jobs[i].pc = "done"
        /\ jobs[i].status.errors # <<>>
        /\ polled.project_id = jobs[i].project_id

\* The calls (git, generator, gateway, notification) made on behalf of start
\* request r.
CallsFor(r) ==
    UNION { {jobs[i].calls[c].op : c \in DOMAIN jobs[i].calls} :
              i \in {k \in DOMAIN jobs : jobs[k].req = r} }

\* C12: when get_project_info returns absent for a start request (non-200
\* response or transport error), nothing is done for it: no repository is
\* initialised, no .gitignore or README is written, no config is fetched, no
\* generator is called, no commit is made and no notification is sent.
C12_AbsentMetadataNoSideEffect ==
    \A r \in DOMAIN requests :
        requests[r].project_info = None =>
            /\ CallsFor(r) = {}
            /\ \A i \in DOMAIN jobs :
                  jobs[i].req = r => jobs[i].status.current_step = "Initializing"

\* The metadata lookup of a request returned absent, the request was
\* answered with an error and no task exists.
C12_Witness ==
    \E r \in DOMAIN requests :
        /\ requests[r].pc = "answered"
        /\ requests[r].project_info = None
        /\ requests[r].response.status_code = 500
        /\ jobs = <<>>

\* C13: each of the four gateway reads returns the payload when the peer
\* answers 200 with a body that decodes, returns None for every other status
\* code and for every transport or decoding error, and never raises to its
\* caller.
C13_GatewayReadsNeverRaise ==
    api.endpoint \in GatewayReads =>
        /\ ~api.response.raised
        /\ IF api.input.kind = "response" /\ api.input.code = 200
              /\ api.input.json_ok
           THEN api.response.value = Some(api.input.body)
           ELSE api.response.value = None

\* get_domain_schema was called while its peer was unreachable and returned
\* None without raising.
C13_Witness ==
    /\ api.endpoint = "get_domain_schema"
    /\ api.input.kind = "error"
    /\ api.response = [raised |-> FALSE, value |-> None]

\* A call of notify_infra_ready returns in this step: one made on its own, or
\* the one a generation job awaits at line 208.
NotifyReturns ==
    \/ api' # api /\ api'.endpoint = "notify_infra_ready"
    \/ \E i \in DOMAIN jobs :
          jobs[i].pc = "await_notify" /\ jobs'[i].pc # "await_notify"

\* No job's status record is changed by this step.
StatusRecordsKept ==
    /\ DOMAIN jobs' = DOMAIN jobs
    /\ \A i \in DOMAIN jobs : jobs'[i].status = jobs[i].status

\* C14 as stated: notify_infra_ready returns true exactly when the peer
\* answers with a success status (2xx), false on any other status and on any
\* transport error, and never raises; and the step in which it returns, with
\* false or with true, leaves the status record of every job as it was.
C14_NotifyTrueIffSuccess ==
    [][/\ api'.endpoint = "notify_infra_ready" =>
            /\ ~api'.response.raised
            /\ api'.response.value
                 <=> (api'.input.kind = "response" /\ api'.input.code \in 200..299)
       /\ NotifyReturns => StatusRecordsKept]_vars

\* C14 as amended: notify_infra_ready returns true exactly when the peer
\* answers 200, false on every other status (other success statuses such as
\* 201 and 204 included) and on any transport error, and never raises; and
\* the step in which it returns, with false or with true, leaves the status
\* record of every job as it was.
C14_NotifyTrueIff200 ==
    [][/\ api'.endpoint = "notify_infra_ready" =>
            /\ ~api'.response.raised
            /\ api'.response.value
                 <=> (api'.input.kind = "response" /\ api'.input.code = 200)
       /\ NotifyReturns => StatusRecordsKept]_vars

\* notify_infra_ready was answered with a status other than 200 and returned
\* false while a generation job had ended, and the job's record is as the
\* job left it.
C14_Witness ==
    /\ api.endpoint = "notify_infra_ready"
    /\ api.input.kind = "response"
    /\ api.input.code # 200
    /\ api.response = [raised |-> FALSE, value |-> FALSE]
    /\ Len(jobs) = 1
    /\ jobs[1].pc = "done"
    /\ jobs[1].status.status = "failed"
    /\ jobs[1].status.completed_at # None
    /\ Len(jobs[1].status.errors) = 1

\* The frameworks of the base-image table and the (framework, service type)
\* pairs of the build-command table, as C15 names them.
TableFrameworks ==
    {"react", "vue", "angular", "express", "spring-boot", "django", "flask",
     "go", "rust"}
TablePair(framework, service_type) ==
    \/ service_type = "frontend" /\ framework \in {"react", "vue", "angular"}
    \/ service_type = "backend"
         /\ framework \in {"express", "spring-boot", "django", "flask"}

\* C15: for a framework outside the base-image table _get_base_image returns
\* 'ubuntu:22.04'; for a (framework, service type) pair outside the
\* build-command table _get_build_commands returns ['COPY . .']; neither
\* raises (the request fails only where the template is missing).
C15_DockerDefaults ==
    api.endpoint = "dockerfile" =>
        /\ api.input.framework \notin TableFrameworks
             => api.work.base_image = "ubuntu:22.04"
        /\ ~TablePair(api.input.framework, api.input.service_type)
             => api.work.commands = <<"COPY . .">>
        /\ ~api.response.success
             => api.response.detail = TemplateError("docker/Dockerfile.j2")

\* A Dockerfile was generated for a framework and a service type that are in
\* neither table.
C15_Witness ==
    /\ api.endpoint = "dockerfile"
    /\ api.input.framework = "laravel"
    /\ api.input.service_type = "database"
    /\ api.response.success
    /\ api.response.data.dockerfile.config.base_image = "ubuntu:22.04"
    /\ api.response.data.dockerfile.config.commands = <<"COPY . .">>

\* C16: a pipeline request whose pipeline_type is none of github-actions,
\* jenkins, gitlab-ci, and a Terraform request whose cloud_provider is none
\* of aws, gcp, azure, is answered with an error response (not success=True)
\* and nothing is written to the cache for it.
C16_UnknownTypeRejected ==
    ( \/ /\ api.endpoint = "pipeline"
          /\ api.input.pipeline_type \notin {"github-actions", "jenkins", "gitlab-ci"}
      \/ /\ api.endpoint = "terraform"
          /\ api.input.cloud_provider \notin {"aws", "gcp", "azure"} ) =>
        /\ ~api.response.success
        /\ api.cache_set = None

\* The names of a list of files, in order and as a set.
Names(files) == [i \in 1..Len(files) |-> files[i].name]
NameSet(files) == {files[i].name : i \in 1..Len(files)}

\* C18: the pipeline endpoint returns filename '.github/workflows/main.yml'
\* for github-actions, 'Jenkinsfile' for jenkins and '.gitlab-ci.yml' for
\* gitlab-ci; the manifest list of a manifests request contains
\* '<s>-deployment.yaml' and '<s>-service.yaml' for every service s,
\* 'ingress.yaml' iff enable_ingress, '<s>-hpa.yaml' iff enable_hpa, and ends
\* with 'kustomization.yaml' whose resources are the names of all manifests
\* before it; the Terraform endpoint returns main.tf, variables.tf,
\* outputs.tf.
C18_ArtifactNames ==
    /\ (api.endpoint = "pipeline" /\ api.response.success) =>
          /\ api.input.pipeline_type = "github-actions"
                => api.response.data.filename = ".github/workflows/main.yml"
          /\ api.input.pipeline_type = "jenkins"
                => api.response.data.filename = "Jenkinsfile"
          /\ api.input.pipeline_type = "gitlab-ci"
                => api.response.data.filename = ".gitlab-ci.yml"
    /\ (api.endpoint = "manifests" /\ api.response.success) =>
          LET ms == api.response.data.manifests
              svcs == api.input.services
          IN  /\ \A k \in DOMAIN svcs :
                    /\ svcs[k].name[1] \o "-deployment.yaml" \in NameSet(ms)
                    /\ svcs[k].name[1] \o "-service.yaml" \in NameSet(ms)
                    /\ (svcs[k].name[1] \o "-hpa.yaml" \in NameSet(ms))
                          <=> api.input.enable_hpa
              /\ ("ingress.yaml" \in NameSet(ms)) <=> api.input.enable_ingress
              /\ ms[Len(ms)].name = "kustomization.yaml"
              /\ ms[Len(ms)].content.resources = Names(SubSeq(ms, 1, Len(ms) - 1))
              /\ api.response.data.total_files = Len(ms)
    /\ (api.endpoint = "terraform" /\ api.response.success) =>
          Names(api.response.data.files) = <<"main.tf", "variables.tf", "outputs.tf">>

\* Manifests were generated for two services with the ingress and the
\* autoscalers enabled.
C18_Witness ==
    /\ api.endpoint = "manifests"
    /\ api.response.success
    /\ Len(api.input.services) = 2
    /\ api.input.services[1].name # api.input.services[2].name
    /\ api.input.enable_ingress
    /\ api.input.enable_hpa
    /\ Len(api.response.data.manifests) = 9

\* The git operation an event announces, and the event's name.
AnnouncedOp(endpoint) == IF endpoint = "git_init" THEN "init_repository" ELSE "commit"
EventName(endpoint) ==
    IF endpoint = "git_init" THEN "repository_initialized" ELSE "commit_created"

\* C17: a git-init request publishes repository_initialized at most once and
\* a commit request publishes commit_created at most once, on git-events,
\* carrying event, project_id and repo_name; an event is published only
\* after init_repository, resp. commit, reported success; the handler
\* answers without an acknowledgment of the event and never publishes it
\* again.
C17_EventAtMostOnceAfterSuccess ==
    api.endpoint \in {"git_init", "git_commit"} =>
        /\ Len(api.published) <= 1
        /\ \A k \in DOMAIN api.published :
              /\ api.published[k].topic = "git-events"
              /\ api.published[k].value.event = EventName(api.endpoint)
              /\ api.published[k].value.project_id = api.input.project_id
              /\ api.published[k].value.repo_name = api.input.repo_name
        /\ api.published # <<>> =>
              /\ producer
              /\ api.response.success
              /\ \E c \in DOMAIN api.work :
                    /\ api.work[c].op = AnnouncedOp(api.endpoint)
                    /\ api.work[c].ok
        /\ (\E c \in DOMAIN api.work :
                /\ api.work[c].op = AnnouncedOp(api.endpoint)
                /\ c = 1
                /\ ~api.work[c].ok) => api.published = <<>>

\* A git-init request whose repository was initialised, but whose first
\* commit failed, has published its event and was answered.
C17_Witness ==
    /\ api.endpoint = "git_init"
    /\ Len(api.published) = 1
    /\ api.published[1].value.event = "repository_initialized"
    /\ api.work[1] = [op |-> "init_repository", ok |-> TRUE]
    /\ \E c \in DOMAIN api.work : api.work[c] = [op |-> "commit", ok |-> FALSE]
    /\ api.response.status_code = 200

\* ------------------------------------------- lifespan, Redis and Kafka
\* settings.KAFKA_TOPICS (config.py line 24), and a topic that is not one of
\* them.
KafkaTopics == {"project-updates", "infra-requests", "git-events"}
Topics == KafkaTopics \cup {"audit-log"}
Streams == UNION {[1..n -> Topics] : n \in 0..MaxMessages}

\* RedisService.connect (redis_service.py lines 14-26): redis_client is
\* assigned when from_url returned, before the ping; every exception is
\* logged and raised again.
RedisConnectOutcomes == {"from_url_raises", "ping_raises", "ok"}
RedisConnect(outcome) ==
    [client |-> outcome # "from_url_raises", raised |-> outcome # "ok"]

\* RedisService.disconnect (lines 28-32), entered by the lifespan l: with a
\* client it calls redis_client.close() and is suspended at that await,
\* without one it returns at once and the lifespan is left.  There is no
\* try/except: what close() raises leaves disconnect and the lifespan.
RedisDisconnect(l, client) ==
    IF client
    THEN [l EXCEPT !.pc = "redis_client.close",
            !.calls = @ \o <<"redis_service.disconnect", "redis_client.close">>]
    ELSE [l EXCEPT !.pc = "exited",
            !.calls = Append(@, "redis_service.disconnect")]

\* KafkaService.start up to the consume loop (kafka_service.py lines 15-33):
\* each attribute is assigned when its constructor returned, before the
\* object is started.
KafkaStartOutcomes == {"constructor_raises", "start_raises", "ok"}
KafkaCreate(outcome) ==
    [created |-> outcome # "constructor_raises", raised |-> outcome # "ok"]

\* KafkaService.stop from its second `if` on (lines 46-48): with a producer
\* it calls producer.stop() and is suspended at that await; without one stop
\* returns and the lifespan goes on to redis_service.disconnect (main.py
\* line 47).
KafkaStopProducer(l, prod, client) ==
    IF prod
    THEN [l EXCEPT !.pc = "producer.stop", !.calls = Append(@, "producer.stop")]
    ELSE RedisDisconnect(l, client)

\* KafkaService.stop (lines 42-48), entered by the lifespan l: with a
\* consumer it calls consumer.stop() and is suspended at that await.  There
\* is no try/except: what consumer.stop() or producer.stop() raises leaves
\* stop and the lifespan.
KafkaStop(l, cons, prod, client) ==
    IF cons
    THEN [l EXCEPT !.pc = "consumer.stop",
            !.calls = @ \o <<"kafka_service.stop", "consumer.stop">>]
    ELSE KafkaStopProducer([l EXCEPT !.calls = Append(@, "kafka_service.stop")],
                           prod, client)

\* KafkaService._process_message (lines 61-70): the handler of the topic, ""
\* when the if/elif chain has no branch for it.  The three handlers are
\* stubs (lines 72-85); what a handler does is left open: it returns or
\* raises.
Handler(topic) ==
    CASE topic = "project-updates" -> "_handle_project_update"
      [] topic = "infra-requests" -> "_handle_infra_request"
      [] topic = "git-events" -> "_handle_git_event"
      [] OTHER -> ""
ProcessMessage(topic, fails) ==
    [handler |-> Handler(topic), raised |-> fails /\ Handler(topic) # ""]

\* A variant of the loop body with a fault: there is no try/except around
\* _process_message.
ConsumeOnePropagates(log, k, topic, fails) ==
    LET p == ProcessMessage(topic, fails)
    IN  [dispatched |-> IF p.handler = "" THEN log
                        ELSE Append(log, [message |-> k, handler |-> p.handler,
                                          raised |-> p.raised]),
         raised |-> p.raised]

\* The body of the loop of _consume_messages for the k-th message of the
\* stream (lines 52-59): an exception of _process_message is logged.
ConsumeOne(log, k, topic, fails) ==
    LET p == ProcessMessage(topic, fails)
    IN  [dispatched |-> IF p.handler = "" THEN log
                        ELSE Append(log, [message |-> k, handler |-> p.handler,
                                          raised |-> p.raised]),
         raised |-> FALSE]

\* The lifespan leaves its try block with an exception: the finally block is
\* next.
LifespanRaise(l, call, e) ==
    [l EXCEPT !.pc = "finally", !.exc = e, !.calls = Append(@, call)]

InitService ==
    /\ requests = <<>>
    /\ jobs = <<>>
    /\ now = 0
    /\ polled = NoPoll
    /\ templates = ApiTemplateFiles
    /\ api = NoCall
    /\ pending = EmptyBag
    /\ redis_client = FALSE
    /\ producer = FALSE
    /\ consumer = FALSE
    /\ lifespan = [pc |-> "startup", exc |-> "", calls |-> <<>>]
    /\ stream \in {[messages |-> m, next |-> 1, state |-> "open"] : m \in Streams}
    /\ dispatched = <<>>

\* `await redis_service.connect()`, main.py line 34.
LifespanRedisConnect ==
    /\ lifespan.pc = "startup"
    /\ \E outcome \in RedisConnectOutcomes :
         LET c == RedisConnect(outcome)
         IN  /\ redis_client' = c.client
             /\ lifespan' = IF c.raised
                             THEN LifespanRaise(lifespan, "redis_service.connect",
                                                "RedisError")
                             ELSE [lifespan EXCEPT !.pc = "kafka_start",
                                     !.calls = Append(@, "redis_service.connect")]
    /\ UNCHANGED <<orchVars, templates, api, pending, producer, consumer, stream, dispatched>>

\* `await kafka_service.start()`, main.py line 38, up to the producer
\* (kafka_service.py lines 19-23).
KafkaStartProducer ==
    /\ lifespan.pc = "kafka_start"
    /\ \E outcome \in KafkaStartOutcomes :
         LET c == KafkaCreate(outcome)
         IN  /\ producer' = c.created
             /\ lifespan' = IF c.raised
                             THEN LifespanRaise(lifespan, "kafka_service.start",
                                                "KafkaError")
                             ELSE [lifespan EXCEPT !.pc = "producer_started",
                                     !.calls = Append(@, "kafka_service.start")]
    /\ UNCHANGED <<orchVars, templates, api, pending, redis_client, consumer, stream, dispatched>>

\* kafka_service.start goes on to the consumer (lines 26-33) and enters
\* `await self._consume_messages()` (line 36).
KafkaStartConsumer ==
    /\ lifespan.pc = "producer_started"
    /\ \E outcome \in KafkaStartOutcomes :
         LET c == KafkaCreate(outcome)
         IN  /\ consumer' = c.created
             /\ lifespan' = IF c.raised
                             THEN [lifespan EXCEPT !.pc = "finally",
                                                   !.exc = "KafkaError"]
                             ELSE [lifespan EXCEPT !.pc = "consuming"]
    /\ UNCHANGED <<orchVars, templates, api, pending, redis_client, producer, stream, dispatched>>

\* The stream delivers its next message to the loop of _consume_messages.
ConsumeMessage ==
    /\ lifespan.pc = "consuming"
    /\ stream.state = "open"
    /\ stream.next <= Len(stream.messages)
    /\ \E fails \in BOOLEAN :
         LET c == ConsumeOne(dispatched, stream.next,
                             stream.messages[stream.next], fails)
         IN  /\ dispatched' = c.dispatched
             /\ stream' = [stream EXCEPT !.next = @ + 1]
             /\ lifespan' = IF c.raised
                             THEN [lifespan EXCEPT !.pc = "finally",
                                                   !.exc = "HandlerError"]
                             ELSE lifespan
    /\ UNCHANGED <<orchVars, templates, api, pending, redis_client, producer, consumer>>

\* The stream ends: the `async for` is exhausted, _consume_messages and
\* start return, and the lifespan reaches its yield (main.py line 41).
StreamEnds ==
    /\ lifespan.pc = "consuming"
    /\ stream.state = "open"
    /\ stream' = [stream EXCEPT !.state = "ended"]
    /\ lifespan' = [lifespan EXCEPT !.pc = "serving", !.calls = Append(@, "yield")]
    /\ UNCHANGED <<orchVars, templates, api, pending, redis_client, producer, consumer, dispatched>>

\* The iteration itself raises (the fetch or the deserializer failed): the
\* exception leaves the loop, start logs it and raises it again (lines
\* 38-40).
StreamRaises ==
    /\ lifespan.pc = "consuming"
    /\ stream.state = "open"
    /\ stream' = [stream EXCEPT !.state = "failed"]
    /\ lifespan' = [lifespan EXCEPT !.pc = "finally", !.exc = "KafkaError"]
    /\ UNCHANGED <<orchVars, templates, api, pending, redis_client, producer, consumer, dispatched>>

\* The server shuts down: the lifespan is resumed after its yield.
Shutdown ==
    /\ lifespan.pc = "serving"
    /\ lifespan' = [lifespan EXCEPT !.pc = "finally"]
    /\ UNCHANGED <<orchVars, templates, api, pending, redis_client, producer, consumer, stream, dispatched>>

\* The finally block is entered (main.py lines 43-46): kafka_service.stop
\* runs up to its first await.  An exception the try block raised is kept
\* while the block runs.
LifespanFinally ==
    /\ lifespan.pc = "finally"
    /\ lifespan' = KafkaStop(lifespan, consumer, producer, redis_client)
    /\ UNCHANGED <<orchVars, templates, api, pending, redis_client, producer, consumer, stream, dispatched>>

\* `await self.consumer.stop()` (kafka_service.py line 45) returns, and stop
\* goes on to the producer, or raises: the exception leaves stop and the
\* finally block in place of the one that was propagating, and neither
\* producer.stop nor redis_service.disconnect is called.
ConsumerStopReturned ==
    /\ lifespan.pc = "consumer.stop"
    /\ \E ok \in BOOLEAN :
         lifespan' = IF ok
                     THEN KafkaStopProducer(lifespan, producer, redis_client)
                     ELSE [lifespan EXCEPT !.pc = "exited", !.exc = "KafkaError"]
    /\ UNCHANGED <<orchVars, templates, api, pending, redis_client, producer, consumer, stream, dispatched>>

\* `await self.producer.stop()` (kafka_service.py line 47) returns, and the
\* lifespan goes on to redis_service.disconnect (main.py line 47), or
\* raises, and disconnect is not called.
ProducerStopReturned ==
    /\ lifespan.pc = "producer.stop"
    /\ \E ok \in BOOLEAN :
         lifespan' = IF ok
                     THEN RedisDisconnect(lifespan, redis_client)
                     ELSE [lifespan EXCEPT !.pc = "exited", !.exc = "KafkaError"]
    /\ UNCHANGED <<orchVars, templates, api, pending, redis_client, producer, consumer, stream, dispatched>>

\* `await self.redis_client.close()` (redis_service.py line 31) returns, and
\* the lifespan is left with the exception of the try block, if any, or
\* raises, and the lifespan is left with that exception.
RedisCloseReturned ==
    /\ lifespan.pc = "redis_client.close"
    /\ \E ok \in BOOLEAN :
         lifespan' = IF ok
                     THEN [lifespan EXCEPT !.pc = "exited"]
                     ELSE [lifespan EXCEPT !.pc = "exited", !.exc = "RedisError"]
    /\ UNCHANGED <<orchVars, templates, api, pending, redis_client, producer, consumer, stream, dispatched>>

NextService ==
    \/ LifespanRedisConnect
    \/ KafkaStartProducer
    \/ KafkaStartConsumer
    \/ ConsumeMessage
    \/ StreamEnds
    \/ StreamRaises
    \/ Shutdown
    \/ LifespanFinally
    \/ ConsumerStopReturned
    \/ ProducerStopReturned
    \/ RedisCloseReturned

SpecService == InitService /\ [][NextService]_vars

\* ---------------------------------------------- several jobs interleaved
\* The same handlers with up to MaxJobs start requests and a smaller choice of
\* what the peers answer and which git operations succeed, so that two jobs
\* can be followed through every interleaving of their steps.
PairTemplates == {TemplateFiles, TemplateFiles \ {"kubernetes/deployment.yaml.j2"}}
PairInfoAnswers ==
    {a \in Answers(ProjectInfoBodies) :
        \/ a.kind = "error"
        \/ /\ a.code = 200 /\ a.json_ok
           /\ a.body \in {{<<"name", JStr("app")>>}, {<<"name", JNull>>}}}
PairAnswersAt(pc) ==
    {a \in AnswersAt(pc) :
        \/ a.kind = "error"
        \/ a.code = 200 /\ a.json_ok /\ Has(a.body, "port")}
PairGitResultsAt(pc) ==
    {g \in GitResultsAt(pc) : \A k \in DOMAIN g : k > 1 => g[k]}

InitPair ==
    /\ requests = <<>>
    /\ jobs = <<>>
    /\ now = 0
    /\ templates \in PairTemplates
    /\ polled = NoPoll
    /\ api = NoCall
    /\ pending = EmptyBag
    /\ redis_client = FALSE
    /\ producer = FALSE
    /\ LifespanNotEntered

\* A start request arrives (line 32), as StartRequest.
StartRequestOfPair(p) ==
    /\ Len(requests) < MaxJobs
    /\ requests' = Append(requests,
          [project_id |-> p, pc |-> "await_info", project_info |-> None,
           response |-> NoResponse])
    /\ UNCHANGED <<jobs, now, templates, polled>>
    /\ UNCHANGED apiVars

\* get_project_info returns to one of the handlers (lines 33-66), as
\* ProjectInfoReturned.
ProjectInfoReturnedOfPair(r) ==
    /\ r \in DOMAIN requests
    /\ requests[r].pc = "await_info"
    /\ \E ans \in PairInfoAnswers :
         LET out == StartHandler(r, requests[r].project_id, GatewayRead(ans),
                                 now + 1, TRUE)
         IN  /\ requests' = [requests EXCEPT ![r].pc = "answered",
                                             ![r].project_info = GatewayRead(ans),
                                             ![r].response = out.response]
             /\ jobs' = jobs \o out.scheduled
             /\ now' = IF out.scheduled = <<>> THEN now ELSE now + 1
    /\ UNCHANGED <<templates, polled>>
    /\ UNCHANGED apiVars

\* A variant with a fault: the artifact mapping is one object shared by all
\* InfrastructureConfig instances (a class-level default dict), so what a
\* task writes to it shows in every job.
RunTaskSharedInfra(i) ==
    /\ i \in DOMAIN jobs
    /\ jobs[i].pc # "done"
    /\ requests[jobs[i].req].pc = "answered"
    /\ \E ans \in PairAnswersAt(jobs[i].pc), g \in PairGitResultsAt(jobs[i].pc) :
         LET j2 == Resume(jobs[i], ans, g, templates, now + 1)
         IN  /\ jobs' = [k \in DOMAIN jobs |->
                            IF k = i THEN j2
                            ELSE [jobs[k] EXCEPT !.infra = j2.infra]]
             /\ now' = IF j2.completed_at_writes # jobs[i].completed_at_writes
                       THEN now + 1 ELSE now
    /\ UNCHANGED <<requests, templates, polled>>
    /\ UNCHANGED apiVars

\* The event loop resumes one of the background tasks, as RunTask: the task
\* works on the status object it was passed (line 51) and on the
\* InfrastructureConfig it constructed itself (line 75).
RunTaskOfPair(i) ==
    /\ i \in DOMAIN jobs
    /\ jobs[i].pc # "done"
    /\ requests[jobs[i].req].pc = "answered"
    /\ \E ans \in PairAnswersAt(jobs[i].pc), g \in PairGitResultsAt(jobs[i].pc) :
         LET j2 == Resume(jobs[i], ans, g, templates, now + 1)
         IN  /\ jobs' = [jobs EXCEPT ![i] = j2]
             /\ now' = IF j2.completed_at_writes # jobs[i].completed_at_writes
                       THEN now + 1 ELSE now
    /\ UNCHANGED <<requests, templates, polled>>
    /\ UNCHANGED apiVars

NextPair ==
    \/ \E p \in Projects : StartRequestOfPair(p)
    \/ \E r \in 1..MaxJobs : ProjectInfoReturnedOfPair(r)
    \/ \E i \in 1..MaxJobs : RunTaskOfPair(i)

SpecPair == InitPair /\ [][NextPair]_vars

\* ------------------------------ notify_infra_ready beside a generation job
\* IntegrationService.notify_infra_ready called on its own while a
\* generation job is followed: the steps of the job and those of the call,
\* in every order.
NextNotify ==
    \/ Next
    \/ NotifyRequest
    \/ NotifyAnswered
    \/ Deliver

SpecNotify == InitPair /\ [][NextNotify]_vars

\* ------------------------------------------------------------ the claims
\* The number of the step a label belongs to in the task (StepLabel), 0 for
\* the label the status record is created with.
LabelIndex(label) ==
    IF label = "Initializing" THEN 0
    ELSE CHOOSE k \in 1..TotalSteps : StepLabel(k) = label

\* The number of the step a label belongs to in the order C19 gives:
\* metadata 1, repository init 2, container artifacts 3, cluster manifests 4,
\* CI workflow 5, infrastructure-as-code 6, monitoring 7, commit/finalise 8.
StatedIndex(label) ==
    IF label = "Initializing" THEN 1
    ELSE IF LabelIndex(label) = TotalSteps THEN TotalSteps
    ELSE LabelIndex(label) + 1

\* C19 as stated: with the steps numbered metadata, repository init, ...,
\* commit/finalise, the progress of a job whose k-th step was started last is
\* 12.5*k.
C19_ProgressByStatedOrder ==
    \A i \in DOMAIN jobs :
        jobs[i].status.current_step # "Initializing" =>
            jobs[i].status.progress_percentage
                = Pct1 * StatedIndex(jobs[i].status.current_step)

\* C19 as amended: the steps of a job are the eight labelled steps of the
\* task (repository init 1, container artifacts 2, cluster manifests 3, CI
\* workflow 4, infrastructure-as-code 5, monitoring 6, commit 7, finalise 8;
\* total_steps = 8), the metadata lookup precedes the job and advances
\* nothing.  A job is created at 'Initializing' with progress 0; every step
\* of the task either keeps the label or moves it to the next one, never
\* back and never past one; the progress is 12.5*k whenever the label is
\* that of step k; after a failure the label is that of the step that raised.
C19_StepsInOrder ==
    [][ \A i \in DOMAIN jobs' :
          LET new == jobs'[i].status
              k == LabelIndex(new.current_step)
          IN  /\ new.total_steps = TotalSteps
              /\ new.progress_percentage = Pct1 * k
              /\ jobs'[i].raised_at > 0 => k = jobs'[i].raised_at
              /\ IF i \in DOMAIN jobs
                 THEN k \in { LabelIndex(jobs[i].status.current_step),
                              LabelIndex(jobs[i].status.current_step) + 1 }
                 ELSE k = 0 ]_vars

\* A job has started its first four steps and failed in the fourth.
C19_Witness ==
    \E i \in DOMAIN jobs :
        /\ jobs[i].pc = "done"
        /\ jobs[i].raised_at = 4
        /\ jobs[i].status.current_step = "Generating CI/CD pipelines"
        /\ jobs[i].status.progress_percentage = Pct4

\* A service's config is present: the gateway returned a non-empty payload.
Present(cfg) == Truthy(cfg)
\* A present config is well formed: its port, if any, is an integer.
WellFormed(cfg, default_port) ==
    Present(cfg) => IsInt(Get(cfg[1], "port", JInt(ToString(default_port))))
PresentServices(j) ==
    {svc \in {"backend", "frontend"} :
        Present(IF svc = "backend" THEN j.backend_config ELSE j.frontend_config)}

\* C20: for every combination of the backend and frontend config being
\* present or absent, the container-artifact step and the cluster-manifest
\* step run without raising and advance the progress (a step raises only
\* for a present config that is malformed or whose template is missing), and
\* a Dockerfile and a deployment manifest are produced for a service if and
\* only if its config is present.
C20_AbsentConfigIsSkipped ==
    \A i \in DOMAIN jobs :
        /\ jobs[i].raised_at \in {2, 3} =>
              /\ PresentServices(jobs[i]) # {}
              /\ \/ ~({"docker/Dockerfile.j2", "kubernetes/deployment.yaml.j2"}
                         \subseteq templates)
                 \/ ~WellFormed(jobs[i].backend_config, DefaultBackendPort)
                 \/ ~WellFormed(jobs[i].frontend_config, DefaultFrontendPort)
        /\ jobs[i].pc = "step3" =>
              /\ jobs[i].status.progress_percentage = Pct2
              /\ DOMAIN jobs[i].infra.docker = PresentServices(jobs[i])
        /\ (jobs[i].pc = "step4" \/ jobs[i].raised_at >= 4) =>
              /\ jobs[i].status.progress_percentage >= Pct3
              /\ DOMAIN jobs[i].infra.docker = PresentServices(jobs[i])
              /\ "manifests" \in DOMAIN jobs[i].infra.kubernetes
              /\ ManifestNames(jobs[i].infra)
                    = {svc \o "-deployment.yaml" : svc \in PresentServices(jobs[i])}

\* A job whose backend config was absent and whose frontend config was
\* present has run both steps: only the frontend has a Dockerfile and a
\* deployment.
C20_Witness ==
    \E i \in DOMAIN jobs :
        /\ jobs[i].backend_config = None
        /\ Present(jobs[i].frontend_config)
        /\ jobs[i].status.progress_percentage >= Pct4
        /\ DOMAIN jobs[i].infra.docker = {"frontend"}
        /\ ManifestNames(jobs[i].infra) = {"frontend-deployment.yaml"}

\* The positions in a job's call log of the calls of one operation.
CallsOf(j, op) == {c \in DOMAIN j.calls : j.calls[c].op = op}

\* C21: the status of a job is 'completed' only after its commit step was
\* invoked; notify_infra_ready is invoked only after the status was set to
\* 'completed', after the commit, at most once per job, and never by a job
\* that is or ends 'failed'.
C21_CommitCompletedNotify ==
    \A i \in DOMAIN jobs :
        /\ jobs[i].status.status = "completed" => CallsOf(jobs[i], "commit") # {}
        /\ Cardinality(CallsOf(jobs[i], "notify_infra_ready")) <= 1
        /\ \A n \in CallsOf(jobs[i], "notify_infra_ready") :
              /\ jobs[i].status.status = "completed"
              /\ \E c \in CallsOf(jobs[i], "commit") : c < n
        /\ (jobs[i].status.status = "failed" \/ jobs[i].exc # "") =>
              CallsOf(jobs[i], "notify_infra_ready") = {}

\* A job has ended 'failed' after its repository was initialised; it has
\* made calls, none of them the notification.
C21_Witness ==
    \E i \in DOMAIN jobs :
        /\ jobs[i].pc = "done"
        /\ jobs[i].status.status = "failed"
        /\ CallsOf(jobs[i], "init_repository") # {}
        /\ CallsOf(jobs[i], "notify_infra_ready") = {}

\* C22: every scheduled job terminates.  Under the assumption that each
\* collaborator call returns, a job that was scheduled eventually has status
\* 'completed' or 'failed' with its task returned; from then on the job takes
\* no step; and no operation is called twice by a job (nothing is retried).
C22_JobsTerminate ==
    /\ \A i \in 1..MaxRequests :
          (i \in DOMAIN jobs) ~>
              (i \in DOMAIN jobs /\ jobs[i].pc = "done" /\ Terminal(jobs[i].status))
    /\ [][ \A i \in DOMAIN jobs : jobs[i].pc = "done" => jobs'[i] = jobs[i] ]_vars
    /\ [](\A i \in DOMAIN jobs :
            \A c, d \in DOMAIN jobs[i].calls :
                jobs[i].calls[c].op = jobs[i].calls[d].op => c = d)

\* A job that was suspended on both config lookups has returned, 'failed'.
C22_Witness ==
    \E i \in DOMAIN jobs :
        /\ jobs[i].pc = "done"
        /\ jobs[i].outcome = "returned"
        /\ Terminal(jobs[i].status)
        /\ CallsOf(jobs[i], "get_backend_config") # {}
        /\ CallsOf(jobs[i], "get_frontend_config") # {}

\* The positions at which other requests can run between two steps of a
\* job: the task was scheduled and has not started, it is suspended in an
\* await (lines 100, 101, 208), or it has returned.
InterleavingPoints == {"scheduled", "await_backend", "await_frontend",
                       "await_notify", "done"}

\* C23: wherever another request can interleave with a job, the job's status
\* record is a consistent snapshot: completed_at is set iff the status is
\* terminal, progress is 100 iff the status is 'completed', errors are
\* present only if the status is 'failed', and no raised exception is
\* waiting for its except clause.
C23_ConsistentSnapshot ==
    \A i \in DOMAIN jobs :
        jobs[i].pc \in InterleavingPoints =>
            LET st == jobs[i].status
            IN  /\ (st.completed_at # None) <=> Terminal(st)
                /\ (st.progress_percentage = Pct8) <=> (st.status = "completed")
                /\ st.errors # <<>> => st.status = "failed"
                /\ st.status = "failed" => st.errors # <<>>
                /\ jobs[i].exc = ""
                /\ Terminal(st) <=> jobs[i].pc \in {"await_notify", "done"}

\* A job was suspended on the frontend lookup, resumed, and failed: its
\* record carries the error, the completion time and the progress reached.
C23_Witness ==
    \E i \in DOMAIN jobs :
        /\ jobs[i].pc = "done"
        /\ CallsOf(jobs[i], "get_frontend_config") # {}
        /\ jobs[i].status.status = "failed"
        /\ jobs[i].status.errors # <<>>
        /\ jobs[i].status.completed_at # None
        /\ jobs[i].status.progress_percentage \in {Pct2, Pct3, Pct4}

\* The step at which a job's task raises, computed from what that job was
\* given: its project info, the configs it read and the template directory.
ExpectedRaise(j) ==
    LET deploy == "kubernetes/deployment.yaml.j2"
        docker == "docker/Dockerfile.j2"
    IN  IF ~IsStr(Get(j.project_info, "name", JStr(j.project_id))) THEN 1
        ELSE IF \/ ~WellFormed(j.backend_config, DefaultBackendPort)
                \/ ~WellFormed(j.frontend_config, DefaultFrontendPort)
                \/ PresentServices(j) # {} /\ docker \notin templates
        THEN 2
        ELSE IF PresentServices(j) # {} /\ deploy \notin templates THEN 3
        ELSE 4

\* C24: jobs that run interleaved, for different projects or for the same
\* one, each have their own status record and artifact mapping.  A step
\* changes at most one job and leaves every other job's record as it was;
\* a job that has ended carries exactly its own error, the artifacts of its
\* own services, and the outcome its own inputs determine.
C24_JobsIndependent ==
    /\ [][ /\ \A i \in DOMAIN jobs : i \in DOMAIN jobs'
           /\ \A i, k \in DOMAIN jobs :
                 (i # k /\ jobs'[i] # jobs[i]) => jobs'[k] = jobs[k] ]_vars
    /\ [](\A i \in DOMAIN jobs :
            /\ jobs[i].status.project_id = jobs[i].project_id
            /\ DOMAIN jobs[i].infra.docker \subseteq PresentServices(jobs[i])
            /\ jobs[i].pc = "done" =>
                  /\ jobs[i].status.status = "failed"
                  /\ Len(jobs[i].status.errors) = 1
                  /\ jobs[i].raised_at = ExpectedRaise(jobs[i]))

\* Two jobs of the same project: the first has failed in its first step, the
\* second has meanwhile produced its Dockerfiles and manifests and is still
\* in progress with no error.
C24_Witness ==
    /\ Len(jobs) = 2
    /\ jobs[1].project_id = jobs[2].project_id
    /\ jobs[1].pc = "done"
    /\ jobs[1].raised_at = 1
    /\ jobs[2].pc = "step4"
    /\ jobs[2].status.status = "in_progress"
    /\ jobs[2].status.errors = <<>>
    /\ DOMAIN jobs[2].infra.docker # {}

\* C25: a start request whose metadata lookup returned absent is answered
\* with HTTP status 404 and detail 'Project not found', and no background
\* task is scheduled for it.
C25_AbsentMetadataIs404 ==
    \A r \in DOMAIN requests :
        (requests[r].pc = "answered" /\ requests[r].project_info = None) =>
            /\ requests[r].response.status_code = 404
            /\ requests[r].response.detail = "Project not found"
            /\ \A i \in DOMAIN jobs : jobs[i].req # r

\* The git operations a git-init request asks for after init_repository.
InitFollowUps(req) ==
    (IF req.gitignore_template # "" THEN <<"create_gitignore">> ELSE <<>>)
    \o (IF req.include_readme THEN <<"create_readme">> ELSE <<>>)
    \o <<"commit">>
Ops(work) == [c \in DOMAIN work |-> work[c].op]

\* C26 as stated: the git-init endpoint answers success=True with status 200
\* if and only if init_repository returned True; when it returned False the
\* response is an error, nothing else is attempted and no event is published.
C26_SuccessIffInitSucceeded ==
    api.endpoint = "git_init" =>
        /\ (api.response.success /\ api.response.status_code = 200)
              <=> api.work[1].ok
        /\ ~api.work[1].ok =>
              Len(api.work) = 1 /\ api.published = <<>>

\* C26 as amended: the git-init endpoint answers success=True (200) only if
\* init_repository returned True, and then exactly when publishing the event
\* did not raise: always when there is no producer, and otherwise unless
\* producer.send raised, which is answered with 500 after all git operations
\* ran.  The results of create_gitignore, create_readme and the initial
\* commit do not change the response.  When init_repository returned False
\* the response is an error (500), nothing else is attempted and no event
\* is published.
C26_SuccessIffInitAndPublish ==
    api.endpoint = "git_init" =>
        /\ api.work[1].op = "init_repository"
        /\ api.response.success => api.work[1].ok /\ api.response.status_code = 200
        /\ (api.work[1].ok /\ ~producer) => api.response.success
        /\ api.work[1].ok =>
              Ops(api.work) = <<"init_repository">> \o InitFollowUps(api.input)
        /\ (api.work[1].ok /\ ~api.response.success) =>
              /\ producer
              /\ api.published = <<>>
              /\ api.response.status_code = 500
              /\ api.response.detail = "KafkaError"
        /\ ~api.work[1].ok =>
              /\ ~api.response.success
              /\ api.response.status_code = 500
              /\ Len(api.work) = 1
              /\ api.published = <<>>

\* A git-init request whose repository was initialised and whose .gitignore,
\* README and first commit all failed was answered with success.
C26_Witness ==
    /\ api.endpoint = "git_init"
    /\ Len(api.work) = 4
    /\ api.work[1].ok
    /\ \A c \in 2..4 : ~api.work[c].ok
    /\ api.response.success
    /\ api.response.status_code = 200

\* C27: a failing version-control operation is not a step failure.  A job
\* whose init_repository returned False, and whose other inputs are good,
\* goes on through the remaining steps and ends 'completed' with no error.
C27_GitFailureStillCompletes ==
    \A i \in DOMAIN jobs :
        ( /\ GoodRun(jobs[i])
          /\ \E c \in CallsOf(jobs[i], "init_repository") : ~jobs[i].calls[c].ok
          /\ WellFormed(jobs[i].backend_config, DefaultBackendPort)
          /\ WellFormed(jobs[i].frontend_config, DefaultFrontendPort) ) =>
            /\ jobs[i].status.status = "completed"
            /\ jobs[i].status.errors = <<>>

\* The positions of a call in the lifespan's call log.
LifespanCalls(name) == {c \in DOMAIN lifespan.calls : lifespan.calls[c] = name}

\* C28: kafka_service.start does not return while the consumer's stream is
\* open, so the lifespan reaches its yield only after the stream has ended;
\* whenever the lifespan has exited, after a failed startup or after
\* serving, kafka_service.stop and then redis_service.disconnect were both
\* executed, once each, and neither touched a producer, consumer or Redis
\* client that was never created.
C28_YieldAfterStreamAndCleanup ==
    /\ stream.state = "open" =>
          lifespan.pc # "serving" /\ LifespanCalls("yield") = {}
    /\ (lifespan.pc = "serving" \/ LifespanCalls("yield") # {}) =>
          stream.state = "ended" /\ redis_client /\ producer /\ consumer
    /\ lifespan.pc = "exited" =>
          /\ Cardinality(LifespanCalls("kafka_service.stop")) = 1
          /\ Cardinality(LifespanCalls("redis_service.disconnect")) = 1
          /\ \A a \in LifespanCalls("kafka_service.stop"),
                b \in LifespanCalls("redis_service.disconnect") : a < b
          /\ LifespanCalls("consumer.stop") # {} => consumer
          /\ LifespanCalls("producer.stop") # {} => producer
          /\ LifespanCalls("redis_client.close") # {} => redis_client

\* The messages of the stream, up to position n, that have a handler, as the
\* loop should have dispatched them.
RECURSIVE ExpectedDispatch(_, _)
ExpectedDispatch(messages, n) ==
    IF n = 0 THEN <<>>
    ELSE LET before == ExpectedDispatch(messages, n - 1)
         IN  IF messages[n] \in KafkaTopics
             THEN Append(before, [message |-> n, handler |-> Handler(messages[n])])
             ELSE before
Dispatches(log) ==
    [c \in DOMAIN log |-> [message |-> log[c].message, handler |-> log[c].handler]]

\* C29: an error raised while processing a message is caught and does not
\* stop consumption.  Every message the stream has delivered so far was
\* handed, in arrival order, to the handler of its topic, whether or not
\* the handling of an earlier message raised; a message of another topic
\* was skipped without an error; and the loop is left only when the stream
\* itself ends or raises, never by an error of a handler.
C29_ConsumptionSurvivesHandlerErrors ==
    /\ Dispatches(dispatched) = ExpectedDispatch(stream.messages, stream.next - 1)
    /\ lifespan.exc # "HandlerError"
    /\ (lifespan.pc = "consuming" /\ stream.next <= Len(stream.messages)) =>
          stream.state = "open" /\ ENABLED ConsumeMessage
    /\ lifespan.pc \notin {"startup", "kafka_start", "producer_started",
                            "consuming"} /\ consumer /\ dispatched # <<>> =>
          stream.state \in {"ended", "failed"}

\* The handling of the first message raised; two later messages, one of them
\* of a topic without a handler, were consumed after it.
C29_Witness ==
    /\ stream.next = 4
    /\ stream.messages[3] \notin KafkaTopics
    /\ Len(dispatched) = 2
    /\ dispatched[1].raised
    /\ dispatched[2].message = 2
    /\ lifespan.pc = "consuming"

\* The generator endpoints, and the handler of each.
Generators ==
    {"dockerfile", "docker_compose", "manifests", "pipeline", "terraform",
     "monitoring"}
GeneratorEndpoint(endpoint, req, tmpl, client, ok) ==
    CASE endpoint = "dockerfile" -> DockerfileEndpoint(req, tmpl, client, ok)
      [] endpoint = "docker_compose" -> DockerComposeEndpoint(req, client, ok)
      [] endpoint = "manifests" -> K8sManifestsEndpoint(req, tmpl, client, ok)
      [] endpoint = "pipeline" -> PipelineEndpoint(req, tmpl, client, ok)
      [] endpoint = "terraform" -> TerraformEndpoint(req, tmpl, client, ok)
      [] endpoint = "monitoring" -> MonitoringEndpoint(req, tmpl, client, ok)

\* C30: RedisService.get, set and delete never raise: without a client or
\* when the Redis call fails, get returns None and set and delete return
\* False.  Every generator endpoint therefore gives the same response
\* whatever the cache does, success=True with the artifact when the
\* generation succeeded, and it writes the cache only after the generation
\* has succeeded.
C30_CacheNeverFailsARequest ==
    /\ api.endpoint \in {"redis_get", "redis_set", "redis_delete"} =>
          /\ ~api.response.raised
          /\ (~redis_client \/ api.input \in {"raises", "bad_json", "miss"}) =>
                api.response.value = (IF api.endpoint = "redis_get" THEN None
                                      ELSE FALSE)
          /\ (redis_client /\ api.input = "ok") => api.response.value = TRUE
          /\ (redis_client /\ api.input = "hit") => api.response.value # None
    /\ \A client \in BOOLEAN, ok \in BOOLEAN :
          RedisSet(client, "k", "v", ok).result
            = RedisCall("set", client, IF ok THEN "ok" ELSE "raises").value
    /\ api.endpoint \in Generators =>
          /\ \A client \in BOOLEAN, ok \in BOOLEAN :
                GeneratorEndpoint(api.endpoint, api.input, templates, client, ok).response
                  = api.response
          /\ api.cache_set # None => api.response.success /\ redis_client
          /\ ~api.response.success => api.cache_set = None
          /\ api.response.success => api.response.status_code = 200

\* The monitoring setup was generated while Redis was connected but the
\* cache write was not made; the files were returned with success.
C30_Witness ==
    /\ api.endpoint = "monitoring"
    /\ redis_client
    /\ api.cache_set = None
    /\ api.response.success
    /\ Len(api.response.data.files) = 4

====
